---- MODULE Spec2Model ----
(***************************************************************************)
(* A model of vyper-rs: the Venv typestate lifecycle (src/src/venv.rs),    *)
(* the single compilation unit Vyper, the scoped-thread batch VyperStack   *)
(* and the tokio batch Vypers (src/src/vyper.rs).                          *)
(*                                                                         *)
(* Conventions.  Option<T> is a sequence of length 0 (None) or 1 (Some).   *)
(* A text (String, stdout, stderr, message) is a sequence of fragments.    *)
(* A file-system path of a binary or directory is the sequence of its      *)
(* components; a source / ABI path is a record [stem, ext].                *)
(* Every record is written with its fields in the order in which TLC keeps *)
(* them (the order in which the names first occur in the module), so that  *)
(* no worker of TLC ever has to reorder a record another worker reads.     *)
(* The specifications share the variables: SpecVenv (lifecycle and the     *)
(* single unit), SpecStack (VyperStack), Spec (Vypers), SpecLive (Vypers   *)
(* under a fair scheduler), SpecUnit (the operations of one unit),         *)
(* SpecBlueprint (parse_blueprint) and SpecScan (scan_workspace), both of  *)
(* src/src/utils.rs.                                                       *)
(***************************************************************************)
EXTENDS Integers, Sequences, FiniteSets, TLC

VARIABLES
    windows,   \* cfg!(target_os = "windows"), fixed for one build
    fs,        \* the set of binary / directory paths that exist or resolve
    comp,      \* what the compiler does today for each source path
    held,      \* the Venv<State> values the caller holds (Venv is Copy)
    hist,      \* the lifecycle methods that have returned Ok so far
    u,         \* one Vyper unit
    stack,     \* the slice of units behind a VyperStack
    vy,        \* one Vypers batch
    call,      \* the frame of the batch call in progress
    tasks,     \* the tasks / threads spawned by the last batch call
    pc,        \* "new" (no batch made yet), "idle", or "joining" / "scope"
    detached,  \* the closures of spawned tasks whose JoinHandle was dropped
    files,     \* the content of the file at each ABI path, None when absent
    ret        \* what the last operation returned to its caller

vars == <<windows, fs, comp, held, hist, u, stack, vy, call, tasks, pc, detached, files, ret>>

---------------------------------------------------------------------------
(* Bounds of the model *)

\* the longest batch (number of source paths, of ABI paths, of units)
MaxN == 2

\* a batch call starts only while fewer detached tasks than this still run
MaxDetached == 1

---------------------------------------------------------------------------
(* Option, texts and paths *)

None == <<>>
Some(x) == <<x>>
IsSome(o) == Len(o) = 1
IsNone(o) == Len(o) = 0

\* String::from_utf8_lossy(..).to_string(): every invalid byte becomes U+FFFD,
\* every other fragment is kept
FromUtf8Lossy(bytes) ==
    [k \in 1..Len(bytes) |-> IF bytes[k] = "\\xFF" THEN "U+FFFD" ELSE bytes[k]]

\* format!("{}/<dir>/<name>", venv)
Join(root, dir, name) == root \o <<dir, name>>

VenvDir == <<".", "venv">>
GlobalVyper == <<"vyper">>
GlobalPip == <<"pip3">>

\* the literal paths of venv.rs: "./venv/scripts/.." on windows, "./venv/bin/.."
VenvPipPath == IF windows THEN <<".", "venv", "scripts", "pip3">>
                          ELSE <<".", "venv", "bin", "pip3">>
VenvVyperPath == IF windows THEN <<".", "venv", "scripts", "vyper">>
                            ELSE <<".", "venv", "bin", "vyper">>

\* the source paths and the ABI paths a caller passes
SrcPaths == {[stem |-> "a", ext |-> "vy"], [stem |-> "b", ext |-> "vy"]}
AbiPaths == {[stem |-> "x", ext |-> "json"]}
VenvRoots == {VenvDir}
Versions == {None, Some("0.3.10")}

\* Path::with_extension("json")
WithExtension(p, e) == [p EXCEPT !.ext = e]

\* a file named ".vy": Path::file_stem is ".vy" and it has no extension
DotVy == [stem |-> ".vy", ext |-> ""]
\* every source path of the model and every path an ABI can be written to
AllSrc == SrcPaths \cup {DotVy}
AllAbi == AbiPaths \cup {WithExtension(p, "json") : p \in AllSrc}

---------------------------------------------------------------------------
(* The external processes *)

\* What one run of the compiler on a source gives: exit code, stdout of the
\* default (bytecode) format, stdout of "-f abi", stderr.
OkA == [code |-> 0, stdout |-> <<"0", "x", "a", "\n">>,
        abiout |-> <<"[", "]", "\n">>, stderr |-> <<>>]
OkB == [code |-> 0, stdout |-> <<"w", ":", "0", "x", "b", "\n">>,
        abiout |-> <<"[", "[", "]", "]">>, stderr |-> <<>>]
OkC == [code |-> 0, stdout |-> <<"0", "x", "c">>,
        abiout |-> <<"[">>, stderr |-> <<>>]
Fail1 == [code |-> 1, stdout |-> <<>>, abiout |-> <<>>, stderr |-> <<"e", "1">>]
Fail2 == [code |-> 1, stdout |-> <<>>, abiout |-> <<>>, stderr |-> <<"e", "2">>]
Outcomes == {OkA, OkB, OkC, Fail1, Fail2}

\* what the compiler can say of each source of a batch, as its file is edited:
\* a.vy compiles to OkA or fails with Fail1, b.vy compiles to OkB or fails with
\* Fail2, the file named .vy compiles to OkA
SourceOutcomes(p) ==
    IF p.stem = "a" THEN {OkA, Fail1}
    ELSE IF p.stem = "b" THEN {OkB, Fail2}
    ELSE {OkA}

\* What one run of mkdir, python3 or pip3 gives.  "nospawn" is Command::output()
\* returning Err (the program could not be started).
ToolOutcomes == {[stderr |-> <<>>, st |-> "ok"],
                 [stderr |-> <<"p", "1">>, st |-> "fail"],
                 [stderr |-> <<"p", "2">>, st |-> "fail"],
                 [stderr |-> <<>>, st |-> "nospawn"]}

\* One entry of the log of processes an operation started (or tried to): the
\* program, its flags (texts), the source path among its arguments if any, and
\* what the process did: st is "ok" (exit 0), "fail" (non-zero exit) or
\* "nospawn", stderr is what it wrote to its standard error.
Proc(bin, args, src, st, stderr) ==
    [stderr |-> stderr, st |-> st, bin |-> bin, args |-> args, src |-> src]

\* how a tool that resolves on PATH (mkdir, python3) ran
Ran(bin, args, o) == Proc(bin, args, None, o.st, o.stderr)

\* how a program at a path of the file system ran
RanAt(bin, args, src, o) ==
    IF bin \in fs THEN Proc(bin, args, src, o.st, o.stderr)
                  ELSE Proc(bin, args, src, "nospawn", <<>>)

\* the compiler's run as a process outcome
CompilerRun(o) == [stderr |-> o.stderr, st |-> IF o.code = 0 THEN "ok" ELSE "fail"]

\* What the last operation did, as its caller sees it: kind is "ok", "err",
\* "panic" or "none" (Option::None); err names the error variant and text is
\* its message; value is what Ok carries.
\* Kept beside it for the checks: args (what the call was given), procs (the
\* processes it started) and order (the order in which its tasks finished).
Ret(op, kind, err, text, procs) ==
    [args |-> <<>>, op |-> op, kind |-> kind, err |-> err, text |-> text,
     procs |-> procs, value |-> <<>>, order |-> <<>>]
NoRet == Ret("-", "ok", "-", <<>>, <<>>)

---------------------------------------------------------------------------
(* Vyper, the single unit (vyper.rs 24-120) *)

Vyper(path, abi, venv) ==
    [abi |-> abi, venv |-> venv, path_to_code |-> path, bytecode |-> None]

Vyper_new(path) == Vyper(path, WithExtension(path, "json"), None)
Vyper_with_abi(path, abi) == Vyper(path, abi, None)
Vyper_with_venv(path, venv) == Vyper(path, WithExtension(path, "json"), Some(venv))

Vyper_get_vyper(self) ==
    IF IsSome(self.venv)
    THEN IF windows THEN Join(self.venv[1], "scripts", "vyper")
                    ELSE Join(self.venv[1], "bin", "vyper")
    ELSE GlobalVyper

\* Command::new(bin)...output(): Err when bin cannot be started
Spawns(bin) == bin \in fs

\* Vyper::exists as venv.rs calls it: Command::new("vyper").arg("-h").output().is_ok()
Vyper_exists == Spawns(GlobalVyper)

---------------------------------------------------------------------------
(* The compiler's stdout as the unit API reads it (vyper.rs 139-147) *)

\* String::pop, once
Pop(s) == IF Len(s) = 0 THEN s ELSE SubSeq(s, 1, Len(s) - 1)

\* str::starts_with("0x")
StartsWith0x(s) == Len(s) >= 2 /\ s[1] = "0" /\ s[2] = "x"

\* str::split(":").last(): what follows the last colon, the whole text without one
LastColon(s) ==
    IF \E k \in 1..Len(s) : s[k] = ":"
    THEN CHOOSE k \in 1..Len(s) : s[k] = ":" /\ \A j \in (k + 1)..Len(s) : s[j] # ":"
    ELSE 0
SplitLast(s) == SubSeq(s, LastColon(s) + 1, Len(s))

\* the bytecode kept from a successful run's stdout
ParseBytecode(stdout) ==
    LET out == Pop(FromUtf8Lossy(stdout))
    IN  IF ~StartsWith0x(out) THEN SplitLast(out) ELSE out

---------------------------------------------------------------------------
(* Venv<State>, the typestate lifecycle (venv.rs 84-304) *)

States == {"NotInitialized", "Initialized", "Skip", "Ready", "Complete"}

LifecycleMethods == {"init", "skip", "ivyper_venv", "try_ready_venv",
                     "ivyper_pip", "try_ready_skip"}
\* the compile / extract methods of the Venv namespace
VenvCompileMethods == {"Venv::compile"}

\* Receiver, had compile been written in impl Venv<Initialized>
Receiver_CompileOnInitialized(m) ==
    CASE m \in {"init", "skip"} -> "NotInitialized"
      [] m \in {"ivyper_venv", "try_ready_venv"} -> "Initialized"
      [] m \in {"ivyper_pip", "try_ready_skip"} -> "Skip"
      [] m \in VenvCompileMethods -> "Initialized"

\* the impl block a method is written in: the state of its receiver
Receiver(m) ==
    CASE m \in {"init", "skip"} -> "NotInitialized"
      [] m \in {"ivyper_venv", "try_ready_venv"} -> "Initialized"
      [] m \in {"ivyper_pip", "try_ready_skip"} -> "Skip"
      [] m \in VenvCompileMethods -> "Ready"

\* Yields, had skip returned Venv<Complete>
Yields_SkipCompletes(m) ==
    CASE m = "init" -> "Initialized"
      [] m = "skip" -> "Complete"
      [] m \in {"ivyper_venv", "try_ready_venv"} -> "Ready"
      [] m \in {"ivyper_pip", "try_ready_skip"} -> "Complete"

\* the state of the value a method returns in Ok
Yields(m) ==
    CASE m = "init" -> "Initialized"
      [] m = "skip" -> "Skip"
      [] m \in {"ivyper_venv", "try_ready_venv"} -> "Ready"
      [] m \in {"ivyper_pip", "try_ready_skip"} -> "Complete"

\* a method returned Ok(Venv<Yields(m)>)
Transition(m) ==
    /\ held' = held \cup {Yields(m)}
    /\ hist' = hist \cup {m}

\* format!("vyper=={}", version), or "vyper"
PipArgs(ver) ==
    IF IsSome(ver) THEN <<<<"install">>, <<"vyper==", ver[1]>>>>
                   ELSE <<<<"install">>, <<"vyper">>>>

Venv_new ==
    /\ held' = held \cup {"NotInitialized"}
    /\ ret' = Ret("new", "ok", "-", <<>>, <<>>)
    /\ UNCHANGED <<windows, fs, comp, hist, u, stack, vy, call, tasks, pc, detached, files>>

\* init, when ./venv is absent: mkdir venv, then python3 -m venv ./venv
InitCreate(a, b) ==
    LET mk == Ran(<<"mkdir">>, <<<<"venv">>>>, a)
        py == Ran(<<"python3">>, <<<<"-m">>, <<"venv">>, <<"./venv">>>>, b)
    IN  IF a.st = "nospawn"
        THEN /\ ret' = Ret("init", "err", "Io", <<>>, <<mk>>)
             /\ UNCHANGED <<fs, held, hist>>
        ELSE IF a.st = "fail"
        THEN /\ ret' = Ret("init", "err", "Msg", FromUtf8Lossy(a.stderr), <<mk>>)
             /\ UNCHANGED <<fs, held, hist>>
        ELSE IF b.st = "nospawn"
        THEN /\ ret' = Ret("init", "err", "Io", <<>>, <<mk, py>>)
             /\ fs' = fs \cup {VenvDir}
             /\ UNCHANGED <<held, hist>>
        ELSE IF b.st = "fail"
        THEN /\ ret' = Ret("init", "err", "Msg", FromUtf8Lossy(b.stderr), <<mk, py>>)
             /\ fs' = fs \cup {VenvDir}
             /\ UNCHANGED <<held, hist>>
        ELSE /\ ret' = Ret("init", "ok", "-", <<>>, <<mk, py>>)
             /\ fs' = fs \cup {VenvDir, VenvPipPath}
             /\ Transition("init")

Venv_init ==
    /\ Receiver("init") \in held
    /\ IF VenvDir \in fs
       THEN /\ ret' = Ret("init", "ok", "-", <<>>, <<>>)
            /\ Transition("init")
            /\ fs' = fs
       ELSE \E a \in ToolOutcomes, b \in ToolOutcomes : InitCreate(a, b)
    /\ UNCHANGED <<windows, comp, u, stack, vy, call, tasks, pc, detached, files>>

Venv_skip ==
    /\ Receiver("skip") \in held
    /\ ret' = Ret("skip", "ok", "-", <<>>, <<>>)
    /\ Transition("skip")
    /\ UNCHANGED <<windows, fs, comp, u, stack, vy, call, tasks, pc, detached, files>>

\* Install, had it run pip a second time after a non-zero exit
Install_Retry(m, pip, ver, target, o) ==
    LET p == RanAt(pip, PipArgs(ver), None, o)
    IN  IF p.st = "nospawn"
        THEN /\ ret' = Ret(m, "err", "Io", <<>>, <<p>>)
             /\ UNCHANGED <<fs, held, hist>>
        ELSE IF o.st = "fail"
        THEN /\ ret' = Ret(m, "err", "Msg", FromUtf8Lossy(o.stderr), <<p, p>>)
             /\ UNCHANGED <<fs, held, hist>>
        ELSE /\ ret' = Ret(m, "ok", "-", <<>>, <<p>>)
             /\ fs' = fs \cup {target}
             /\ Transition(m)

\* one run of pip: Command::new(pip).arg("install").arg(..).output()?, bail on a
\* non-zero exit, else the compiler is installed at `target`
Install(m, pip, ver, target, o) ==
    LET p == RanAt(pip, PipArgs(ver), None, o)
    IN  IF p.st = "nospawn"
        THEN /\ ret' = Ret(m, "err", "Io", <<>>, <<p>>)
             /\ UNCHANGED <<fs, held, hist>>
        ELSE IF o.st = "fail"
        THEN /\ ret' = Ret(m, "err", "Msg", FromUtf8Lossy(o.stderr), <<p>>)
             /\ UNCHANGED <<fs, held, hist>>
        ELSE /\ ret' = Ret(m, "ok", "-", <<>>, <<p>>)
             /\ fs' = fs \cup {target}
             /\ Transition(m)

Venv_ivyper_venv(ver) ==
    /\ Receiver("ivyper_venv") \in held
    /\ \E o \in ToolOutcomes : Install("ivyper_venv", VenvPipPath, ver, VenvVyperPath, o)
    /\ UNCHANGED <<windows, comp, u, stack, vy, call, tasks, pc, detached, files>>

Venv_ivyper_pip(ver) ==
    /\ Receiver("ivyper_pip") \in held
    /\ \E o \in ToolOutcomes : Install("ivyper_pip", GlobalPip, ver, GlobalVyper, o)
    /\ UNCHANGED <<windows, comp, u, stack, vy, call, tasks, pc, detached, files>>

\* try_ready, had it looked for pip3 instead of the compiler
Venv_try_ready_WrongPath ==
    /\ Receiver("try_ready_venv") \in held
    /\ IF VenvPipPath \in fs
       THEN /\ ret' = Ret("try_ready_venv", "ok", "-", <<>>, <<>>)
            /\ Transition("try_ready_venv")
       ELSE /\ ret' = Ret("try_ready_venv", "err", "Msg",
                          <<"Vyper was not installed in venv">>, <<>>)
            /\ UNCHANGED <<held, hist>>
    /\ UNCHANGED <<windows, fs, comp, u, stack, vy, call, tasks, pc, detached, files>>

\* Venv<Initialized>::try_ready: Path::new("./venv/bin/vyper").exists()
Venv_try_ready ==
    /\ Receiver("try_ready_venv") \in held
    /\ IF VenvVyperPath \in fs
       THEN /\ ret' = Ret("try_ready_venv", "ok", "-", <<>>, <<>>)
            /\ Transition("try_ready_venv")
       ELSE /\ ret' = Ret("try_ready_venv", "err", "Msg",
                          <<"Vyper was not installed in venv">>, <<>>)
            /\ UNCHANGED <<held, hist>>
    /\ UNCHANGED <<windows, fs, comp, u, stack, vy, call, tasks, pc, detached, files>>

\* Venv<Skip>::try_ready: Vyper::exists()
Skip_try_ready ==
    /\ Receiver("try_ready_skip") \in held
    /\ LET p == RanAt(GlobalVyper, <<<<"-h">>>>, None, [stderr |-> <<>>, st |-> "ok"])
       IN  IF Vyper_exists
           THEN /\ ret' = Ret("try_ready_skip", "ok", "-", <<>>, <<p>>)
                /\ Transition("try_ready_skip")
           ELSE /\ ret' = Ret("try_ready_skip", "err", "Msg",
                              <<"Vyper not installed">>, <<p>>)
                /\ UNCHANGED <<held, hist>>
    /\ UNCHANGED <<windows, fs, comp, u, stack, vy, call, tasks, pc, detached, files>>

\* Venv<Ready>::compile(contract): the literal path, the raw stdout
Venv_compile ==
    /\ Receiver("Venv::compile") \in held
    /\ LET o == comp[u.path_to_code]
           p == RanAt(VenvVyperPath, <<>>, Some(u.path_to_code), CompilerRun(o))
       IN  IF ~Spawns(VenvVyperPath)
           THEN /\ ret' = Ret("Venv::compile", "err", "Io", <<>>, <<p>>)
                /\ u' = u
           ELSE IF o.code = 0
           THEN /\ ret' = Ret("Venv::compile", "ok", "-", <<>>, <<p>>)
                /\ u' = [u EXCEPT !.bytecode = Some(FromUtf8Lossy(o.stdout))]
           ELSE /\ ret' = Ret("Venv::compile", "err", "Msg",
                              FromUtf8Lossy(o.stderr), <<p>>)
                /\ u' = u
    /\ UNCHANGED <<windows, fs, comp, held, hist, stack, vy, call, tasks, pc, detached, files>>

---------------------------------------------------------------------------
(* Vyper::compile (vyper.rs 134-155) *)

\* the result of self.compile() on a unit: the unit afterwards and what is returned
CompileUnit(self, op) ==
    LET o == comp[self.path_to_code]
        bin == Vyper_get_vyper(self)
        p == RanAt(bin, <<>>, Some(self.path_to_code), CompilerRun(o))
    IN  IF ~Spawns(bin)
        THEN [ret |-> Ret(op, "err", "IoError", <<>>, <<p>>), unit |-> self]
        ELSE IF o.code = 0
        THEN [ret |-> Ret(op, "ok", "-", <<>>, <<p>>),
              unit |-> [self EXCEPT !.bytecode = Some(ParseBytecode(o.stdout))]]
        ELSE [ret |-> Ret(op, "err", "CompilerError", FromUtf8Lossy(o.stderr), <<p>>),
              unit |-> self]

Vyper_compile ==
    /\ u' = CompileUnit(u, "Vyper::compile").unit
    /\ ret' = CompileUnit(u, "Vyper::compile").ret
    /\ UNCHANGED <<windows, fs, comp, held, hist, stack, vy, call, tasks, pc, detached, files>>

\* the caller builds another unit
Vyper_construct(path, venv) ==
    /\ u' = IF IsSome(venv) THEN Vyper_with_venv(path, venv[1]) ELSE Vyper_new(path)
    /\ ret' = Ret("Vyper::new", "ok", "-", <<>>, <<>>)
    /\ UNCHANGED <<windows, fs, comp, held, hist, stack, vy, call, tasks, pc, detached, files>>

\* The source file behind a path is edited between two operations: the compiler
\* answers differently from now on.  ret describes the last operation in the
\* world it ran in, so it is cleared.
EditSource(path, o) ==
    /\ pc = "idle"
    /\ comp[path] # o
    /\ comp' = [comp EXCEPT ![path] = o]
    /\ ret' = NoRet
    /\ UNCHANGED <<windows, fs, held, hist, u, stack, vy, call, tasks, pc, detached, files>>

---------------------------------------------------------------------------
(* Initial states *)

\* Vypers::default()
Vypers_default == [abi |-> <<>>, venv |-> None, path_to_code |-> <<>>, bytecode |-> None]

NoCall == [k |-> 1, op |-> "-", order |-> <<>>, ver |-> None, out_vec |-> <<>>]

\* the file system before the program runs: no venv yet, or a venv an earlier run
\* created (directory and runtime, with or without the compiler in it)
InitialFs ==
    {g \cup v : g \in SUBSET {GlobalVyper, GlobalPip},
                v \in {{}, {VenvDir, VenvPipPath}, {VenvDir, VenvPipPath, VenvVyperPath}}}

InitVenv ==
    /\ windows \in BOOLEAN
    /\ fs \in InitialFs
    /\ comp = [p \in AllSrc |-> OkA]
    /\ held = {}
    /\ hist = {}
    /\ u = Vyper_new([stem |-> "a", ext |-> "vy"])
    /\ stack = <<>>
    /\ vy = Vypers_default
    /\ call = NoCall
    /\ tasks = <<>>
    /\ pc = "idle"
    /\ detached = {}
    /\ files = [f \in AllAbi |-> None]
    /\ ret = NoRet

NextVenv ==
    \/ Venv_new
    \/ Venv_init
    \/ Venv_skip
    \/ \E ver \in Versions : Venv_ivyper_venv(ver)
    \/ \E ver \in Versions : Venv_ivyper_pip(ver)
    \/ Venv_try_ready
    \/ Skip_try_ready
    \/ Venv_compile
    \/ Vyper_compile
    \/ \E venv \in {None} \cup {Some(r) : r \in VenvRoots} :
          Vyper_construct(u.path_to_code, venv)
    \/ \E o \in {OkA, OkB, Fail1} : EditSource(u.path_to_code, o)

SpecVenv == InitVenv /\ [][NextVenv]_vars

---------------------------------------------------------------------------
(* JSON as serde_json reads and writes it, for documents made of arrays *)

IsWs(c) == c \in {" ", "\n", "\t", "\r"}
StripWs(t) == SelectSeq(t, LAMBDA c : ~IsWs(c))

\* the nesting depth after the first k characters of t, -1 once it is malformed
RECURSIVE Depth(_, _)
Depth(t, k) ==
    IF k = 0 THEN 0
    ELSE LET d == Depth(t, k - 1)
         IN  IF d < 0 THEN -1
             ELSE IF k > 1 /\ d = 0 THEN -1      \* text after the value ended
             ELSE IF t[k] = "[" THEN d + 1
             ELSE IF t[k] = "]" THEN d - 1
             ELSE -1

\* serde_json::from_str::<Value>: Some(value) or None (a SerializationError);
\* the value of a document is its text without the insignificant whitespace
ParseJson(text) ==
    LET t == StripWs(FromUtf8Lossy(text))
    IN  IF Len(t) > 0 /\ Depth(t, Len(t)) = 0 THEN Some(t) ELSE None

Indent(d) == [k \in 1..d |-> "  "]

\* serde_json::to_writer_pretty: "[]" for an empty array, else one element a
\* line, indented by two spaces a level
RECURSIVE Pretty(_, _, _)
Pretty(t, k, d) ==
    IF k > Len(t) THEN <<>>
    ELSE IF t[k] = "[" /\ t[k + 1] = "]"
    THEN <<"[", "]">> \o Pretty(t, k + 2, d)
    ELSE IF t[k] = "["
    THEN <<"[", "\n">> \o Indent(d + 1) \o Pretty(t, k + 1, d + 1)
    ELSE <<"\n">> \o Indent(d - 1) \o <<"]">> \o Pretty(t, k + 1, d - 1)
ToWriterPretty(value) == Pretty(value, 1, 0)

---------------------------------------------------------------------------
(* Evm (vyper.rs 704-733) *)

Evm == {"Byzantium", "Constantinople", "Petersberg", "Istanbul", "Berlin",
        "Paris", "Shanghai", "Cancun", "Atlantis", "Agharta"}

\* impl Display for Evm
Evm_to_string(v) ==
    CASE v = "Byzantium" -> "byzantium"
      [] v = "Constantinople" -> "constantinople"
      [] v = "Petersberg" -> "petersberg"
      [] v = "Istanbul" -> "istanbul"
      [] v = "Berlin" -> "berlin"
      [] v = "Paris" -> "paris"
      [] v = "Shanghai" -> "shanghai"
      [] v = "Cancun" -> "cancun"
      [] v = "Atlantis" -> "atlantis"
      [] v = "Agharta" -> "agharta"

\* the targets the batch calls of the model are given
EvmInputs == {"Shanghai"}

---------------------------------------------------------------------------
(* Directory scans (utils.rs 72-103) *)

\* file.path().ends_with(".vy"): Path::ends_with compares whole components
PathEndsWithDotVy(p) == p.stem = ".vy" /\ p.ext = ""

\* get_contracts_in_dir on a directory listing `entries`, None when read_dir fails
get_contracts_in_dir(entries) ==
    IF IsNone(entries) THEN None
    ELSE Some(SelectSeq(entries[1], PathEndsWithDotVy))

\* scan_workspace: root, root/contracts, root/src; a scan that failed counts as empty
scan_workspace(root, contracts, src) ==
    LET found(d) == IF IsSome(get_contracts_in_dir(d))
                    THEN get_contracts_in_dir(d)[1] ELSE <<>>
    IN  Some(found(root) \o found(contracts) \o found(src))

\* the longest directory listing
MaxDir == 1
DirEntries == {[stem |-> "a", ext |-> "vy"], DotVy}
SeqsUpTo(S, n) == UNION {[1..k -> S] : k \in 0..n}
Listings == {None} \cup {Some(l) : l \in SeqsUpTo(DirEntries, MaxDir)}

---------------------------------------------------------------------------
(* Vypers: the constructors (vyper.rs 431-520, 685-702) *)

\* the derived ABI paths, had only the paths that have an extension got one
MapExt_OnlyWithExtension(paths) ==
    LET named == SelectSeq(paths, LAMBDA q : q.ext # "")
    IN  [k \in 1..Len(named) |-> WithExtension(named[k], "json")]

\* paths.iter().map(|e| e.with_extension("json")).collect()
MapExt(paths) == [k \in 1..Len(paths) |-> WithExtension(paths[k], "json")]

\* with_all, had it not compared the lengths
Vypers_with_all_NoCheck(paths, abi_paths, venv) ==
    Some([abi |-> abi_paths, venv |-> venv, path_to_code |-> paths, bytecode |-> None])

\* Vypers::with_all: None stands for the panic
Vypers_with_all(paths, abi_paths, venv) ==
    IF Len(paths) # Len(abi_paths)
    THEN None
    ELSE Some([abi |-> abi_paths, venv |-> venv, path_to_code |-> paths,
               bytecode |-> None])

Vypers_new(paths) ==
    [abi |-> MapExt(paths), venv |-> None, path_to_code |-> paths, bytecode |-> None]

Vypers_with_venv(paths, venv) ==
    [abi |-> MapExt(paths), venv |-> Some(venv), path_to_code |-> paths,
     bytecode |-> None]

Vypers_set_venv(self, venv) == [self EXCEPT !.venv = Some(venv)]

Vypers_in_dir(entries) ==
    IF IsSome(get_contracts_in_dir(entries))
    THEN Some(Vypers_new(get_contracts_in_dir(entries)[1]))
    ELSE None

Vypers_in_workspace(root, contracts, src) ==
    IF IsSome(scan_workspace(root, contracts, src))
    THEN Some(Vypers_new(scan_workspace(root, contracts, src)[1]))
    ELSE None

\* impl From<Vec<Vyper>> for Vypers: the venv of the last unit decides
LastVenv(value, k) == IF k = 0 THEN None ELSE value[k].venv
Vypers_from(value) ==
    LET paths == [k \in 1..Len(value) |-> value[k].path_to_code]
        abis == [k \in 1..Len(value) |-> value[k].abi]
        venv == LastVenv(value, Len(value))
    IN  IF IsSome(venv) THEN Vypers_with_venv(paths, venv[1]) ELSE Vypers_new(paths)

\* Vypers_get_vyper, had the batch always run the compiler found on PATH
Vypers_get_vyper_Global(self) == GlobalVyper

Vypers_get_vyper(self) ==
    IF IsSome(self.venv)
    THEN IF windows THEN Join(self.venv[1], "scripts", "vyper")
                    ELSE Join(self.venv[1], "bin", "vyper")
    ELSE GlobalVyper

\* the units a caller builds a Vec<Vyper> from
Units == {Vyper_new(p) : p \in SrcPaths}
           \cup {Vyper_with_abi(p, [stem |-> "x", ext |-> "json"]) : p \in SrcPaths}
           \cup {Vyper_with_venv(p, r) : p \in SrcPaths, r \in VenvRoots}
OptVenv == {None} \cup {Some(r) : r \in VenvRoots}

\* a constructor returned `made` (Some(batch), or None for no batch): the model
\* follows one batch from the call that makes it
Constructed(op, made, failure, text, args) ==
    /\ pc = "new"
    /\ vy' = IF IsSome(made) THEN made[1] ELSE vy
    /\ pc' = IF IsSome(made) THEN "idle" ELSE pc
    /\ ret' = [Ret(op, IF IsSome(made) THEN "ok" ELSE failure, "-",
                   IF IsSome(made) THEN <<>> ELSE text, <<>>)
                 EXCEPT !.args = args]
    /\ UNCHANGED <<windows, fs, comp, held, hist, u, stack, call, tasks,
                   detached, files>>

Call_with_all(paths, abi_paths, venv) ==
    Constructed("with_all", Vypers_with_all(paths, abi_paths, venv), "panic",
                <<"Mismatched Vector Lengths">>, <<Len(paths), Len(abi_paths)>>)
Call_new(paths) ==
    Constructed("new", Some(Vypers_new(paths)), "-", <<>>, <<Len(paths)>>)
Call_with_venv(paths, venv) ==
    Constructed("with_venv", Some(Vypers_with_venv(paths, venv)), "-", <<>>,
                <<Len(paths)>>)
Call_set_venv(venv) ==
    /\ pc = "idle"
    /\ vy' = Vypers_set_venv(vy, venv)
    /\ ret' = Ret("set_venv", "ok", "-", <<>>, <<>>)
    /\ UNCHANGED <<windows, fs, comp, held, hist, u, stack, call, tasks, pc,
                   detached, files>>
Call_in_dir(entries) ==
    Constructed("in_dir", Vypers_in_dir(entries), "none", <<>>, entries)
Call_in_workspace(root, contracts, src) ==
    Constructed("in_workspace", Vypers_in_workspace(root, contracts, src), "none",
                <<>>, <<>>)
Call_from(value) ==
    Constructed("from", Some(Vypers_from(value)), "-", <<>>, value)

---------------------------------------------------------------------------
(* Vypers: the batch calls (vyper.rs 523-683) *)

CompileOps == {"compile_many", "compile_many_ver"}
BatchOps == CompileOps \cup {"gen_abi_many", "get_abi_many"}

\* what the body of one spawned task evaluates to
Res(kind, err, text, val) == [kind |-> kind, err |-> err, text |-> text, val |-> val]
NoRes == Res("-", "-", <<>>, <<>>)

\* the closure given to tokio::spawn for index i, as far as it reads the Arcs
\* it captured: paths[i], bin, the version flag, and abi[i] in gen_abi_many
Closure(op, i, paths, abis, bin, ver) ==
    [bin |-> bin, src |-> paths[i], op |-> op,
     abi |-> IF op = "gen_abi_many" THEN Some(abis[i]) ELSE None,
     ver |-> ver]

\* the command line a closure runs
ClosureArgs(c) ==
    IF c.op = "compile_many_ver" THEN <<<<"--evm-version">>, <<Evm_to_string(c.ver[1])>>>>
    ELSE IF c.op \in {"gen_abi_many", "get_abi_many"} THEN <<<<"-f">>, <<"abi">>>>
    ELSE <<>>
ClosureProc(c) == RanAt(c.bin, ClosureArgs(c), Some(c.src), CompilerRun(comp[c.src]))

\* ClosureRes, had the error carried the failed run's stdout
ClosureRes_ErrStdout(c) ==
    LET o == comp[c.src]
    IN  IF ~Spawns(c.bin) THEN Res("err", "IoError", <<>>, <<>>)
        ELSE IF o.code # 0
        THEN Res("err", "CompilerError", FromUtf8Lossy(o.stdout), <<>>)
        ELSE IF c.op \in CompileOps THEN Res("ok", "-", <<>>, ParseBytecode(o.stdout))
        ELSE IF IsNone(ParseJson(o.abiout)) THEN Res("err", "SerializationError", <<>>, <<>>)
        ELSE Res("ok", "-", <<>>, ParseJson(o.abiout)[1])

\* ClosureRes, had the batch kept the compiler's stdout as it came
ClosureRes_RawStdout(c) ==
    LET o == comp[c.src]
    IN  IF ~Spawns(c.bin) THEN Res("err", "IoError", <<>>, <<>>)
        ELSE IF o.code # 0
        THEN Res("err", "CompilerError", FromUtf8Lossy(o.stderr), <<>>)
        ELSE IF c.op \in CompileOps THEN Res("ok", "-", <<>>, FromUtf8Lossy(o.stdout))
        ELSE IF IsNone(ParseJson(o.abiout)) THEN Res("err", "SerializationError", <<>>, <<>>)
        ELSE Res("ok", "-", <<>>, ParseJson(o.abiout)[1])

\* what the closure returns when it runs now
ClosureRes(c) ==
    LET o == comp[c.src]
    IN  IF ~Spawns(c.bin) THEN Res("err", "IoError", <<>>, <<>>)
        ELSE IF o.code # 0
        THEN Res("err", "CompilerError", FromUtf8Lossy(o.stderr), <<>>)
        ELSE IF c.op \in CompileOps THEN Res("ok", "-", <<>>, ParseBytecode(o.stdout))
        ELSE IF IsNone(ParseJson(o.abiout)) THEN Res("err", "SerializationError", <<>>, <<>>)
        ELSE Res("ok", "-", <<>>, ParseJson(o.abiout)[1])

\* the files after the closure ran: gen_abi_many creates abi[i] and writes to it
ClosureFiles(c) ==
    IF c.op = "gen_abi_many" /\ ClosureRes(c).kind = "ok"
    THEN [files EXCEPT ![c.abi[1]] = Some(ToWriterPretty(ClosureRes(c).val))]
    ELSE files

\* the handle the k-th turn of the join loop awaits, had the loop taken the
\* handles as their tasks finish
AwaitIndex_Arrival(k, ts) ==
    IF \E i \in 1..Len(ts) : ts[i].st = "done"
    THEN CHOOSE i \in 1..Len(ts) :
            ts[i].st = "done" /\ \A j \in 1..Len(ts) : ts[j].st = "done" => j <= i
    ELSE k

\* AwaitIndex, had the loop awaited the handles from the last to the first
AwaitIndex_Reverse(k, ts) == Len(ts) + 1 - k

\* the handle the k-th turn of the join loop awaits: for child_thread in threads
AwaitIndex(k, ts) == k

\* Dropped, had the early return aborted the tasks it no longer awaits
Dropped_Aborted(ts) == {}

\* the spawned tasks whose handle is dropped unawaited: they run on, detached
Dropped(ts) == {ts[i].c : i \in {j \in 1..Len(ts) : ts[j].st = "spawned"}}

\* the call starts: every task is spawned before the first await, and nothing
\* has been returned yet (the model starts no call while MaxDetached tasks of
\* earlier calls still run)
Vypers_start(op, ver) ==
    /\ pc = "idle"
    /\ Cardinality(detached) < MaxDetached
    /\ pc' = "joining"
    /\ call' = [k |-> 1, op |-> op, order |-> <<>>, ver |-> ver, out_vec |-> <<>>]
    /\ tasks' = [i \in 1..Len(vy.path_to_code) |->
                   [st |-> "spawned",
                    procs |-> <<>>,
                    c |-> Closure(op, i, vy.path_to_code, vy.abi,
                                  Vypers_get_vyper(vy), ver),
                    res |-> NoRes]]
    /\ ret' = NoRet
    /\ UNCHANGED <<windows, fs, comp, held, hist, u, stack, vy, detached, files>>

\* the runtime runs spawned task i to its end
Task_run(i) ==
    /\ pc = "joining"
    /\ i \in 1..Len(tasks)
    /\ tasks[i].st = "spawned"
    /\ tasks' = [tasks EXCEPT ![i] = [st |-> "done",
                                      procs |-> <<ClosureProc(tasks[i].c)>>,
                                      c |-> tasks[i].c,
                                      res |-> ClosureRes(tasks[i].c)]]
    /\ files' = ClosureFiles(tasks[i].c)
    /\ call' = [call EXCEPT !.order = Append(@, i)]
    /\ UNCHANGED <<windows, fs, comp, held, hist, u, stack, vy, pc, detached, ret>>

\* the join loop, had it kept what it collected when a unit failed
Vypers_join_Partial ==
    /\ pc = "joining"
    /\ call.k <= Len(tasks)
    /\ LET j == AwaitIndex(call.k, tasks)
           r == tasks[j].res
       IN  /\ tasks[j].st = "done"
           /\ IF r.kind = "ok"
              THEN /\ call' = [call EXCEPT !.k = @ + 1, !.out_vec = Append(@, r.val)]
                   /\ tasks' = [tasks EXCEPT ![j].st = "joined"]
                   /\ UNCHANGED <<pc, ret, detached, vy>>
              ELSE /\ ret' = [Ret(call.op, "err", r.err, r.text, <<>>)
                                EXCEPT !.order = call.order]
                   /\ pc' = "idle"
                   /\ detached' = detached \cup Dropped(tasks)
                   /\ tasks' = <<>>
                   /\ call' = NoCall
                   /\ vy' = IF call.op \in CompileOps
                            THEN [vy EXCEPT !.bytecode = Some(call.out_vec)] ELSE vy
    /\ UNCHANGED <<windows, fs, comp, held, hist, u, stack, files>>

\* one turn of the join loop: let x = child_thread.await??; out_vec.push(x)
Vypers_join ==
    /\ pc = "joining"
    /\ call.k <= Len(tasks)
    /\ LET j == AwaitIndex(call.k, tasks)
           r == tasks[j].res
       IN  /\ tasks[j].st = "done"
           /\ IF r.kind = "ok"
              THEN /\ call' = [call EXCEPT !.k = @ + 1, !.out_vec = Append(@, r.val)]
                   /\ tasks' = [tasks EXCEPT ![j].st = "joined"]
                   /\ UNCHANGED <<pc, ret, detached>>
              ELSE /\ ret' = [Ret(call.op, "err", r.err, r.text, <<>>)
                                EXCEPT !.order = call.order]
                   /\ pc' = "idle"
                   /\ detached' = detached \cup Dropped(tasks)
                   /\ tasks' = <<>>
                   /\ call' = NoCall
    /\ UNCHANGED <<windows, fs, comp, held, hist, u, stack, vy, files>>

\* every handle was awaited: self.bytecode = Some(out_vec); Ok(())
Vypers_finish ==
    /\ pc = "joining"
    /\ call.k > Len(tasks)
    /\ vy' = IF call.op \in CompileOps
             THEN [vy EXCEPT !.bytecode = Some(call.out_vec)] ELSE vy
    /\ ret' = [Ret(call.op, "ok", "-", <<>>, <<>>)
                 EXCEPT !.order = call.order,
                        !.value = IF call.op = "get_abi_many"
                                  THEN call.out_vec ELSE <<>>]
    /\ pc' = "idle"
    /\ tasks' = <<>>
    /\ call' = NoCall
    /\ UNCHANGED <<windows, fs, comp, held, hist, u, stack, detached, files>>

\* the runtime runs a detached task to its end; nobody reads what it returns
Detached_run(c) ==
    /\ c \in detached
    /\ detached' = detached \ {c}
    /\ files' = ClosureFiles(c)
    /\ UNCHANGED <<windows, fs, comp, held, hist, u, stack, vy, call, tasks, pc, ret>>

\* the file system of a batch run: the compiler is installed globally, and in
\* the venv or not
BatchFs == {{GlobalVyper}, {GlobalVyper, VenvDir, VenvPipPath, VenvVyperPath}}

Init ==
    /\ windows \in BOOLEAN
    /\ fs \in BatchFs
    /\ comp \in {c \in [AllSrc -> Outcomes] : \A p \in AllSrc : c[p] \in SourceOutcomes(p)}
    /\ held = {}
    /\ hist = {}
    /\ u = Vyper_new([stem |-> "a", ext |-> "vy"])
    /\ stack = <<>>
    /\ vy = Vypers_default
    /\ call = NoCall
    /\ tasks = <<>>
    /\ pc = "new"
    /\ detached = {}
    /\ files = [f \in AllAbi |-> None]
    /\ ret = NoRet

Next ==
    \/ \E paths \in SeqsUpTo(SrcPaths, MaxN), abi_paths \in SeqsUpTo(AbiPaths, MaxN),
          venv \in OptVenv : Call_with_all(paths, abi_paths, venv)
    \/ \E paths \in SeqsUpTo(SrcPaths, MaxN) : Call_new(paths)
    \/ \E paths \in SeqsUpTo(SrcPaths, MaxN), venv \in VenvRoots :
          Call_with_venv(paths, venv)
    \/ \E venv \in VenvRoots : Call_set_venv(venv)
    \/ \E entries \in Listings : Call_in_dir(entries)
    \/ \E root \in Listings, contracts \in Listings, src \in Listings :
          Call_in_workspace(root, contracts, src)
    \/ \E value \in SeqsUpTo(Units, MaxN) : Call_from(value)
    \/ \E op \in BatchOps \ {"compile_many_ver"} : Vypers_start(op, None)
    \/ \E ver \in EvmInputs : Vypers_start("compile_many_ver", Some(ver))
    \/ \E i \in 1..MaxN : Task_run(i)
    \/ Vypers_join
    \/ Vypers_finish
    \/ \E c \in detached : Detached_run(c)
    \/ \E path \in SrcPaths : \E o \in SourceOutcomes(path) : EditSource(path, o)

Spec == Init /\ [][Next]_vars

---------------------------------------------------------------------------
(* VyperStack: the batch calls on scoped threads (vyper.rs 383-425) *)

StackOps == CompileOps \cup {"gen_abi_many"}

\* the flags of Vyper::compile, Vyper::compile_ver and Vyper::gen_abi
UnitArgs(op, ver) ==
    IF op = "compile_many_ver" THEN <<<<"--evm-version">>, <<Evm_to_string(ver[1])>>>>
    ELSE IF op = "gen_abi_many" THEN <<<<"-f">>, <<"abi">>>>
    ELSE <<>>

\* the closure of one scoped thread, i.compile()? / i.compile_ver(v)? /
\* i.gen_abi()?, run now on unit `self`: the unit and the files afterwards, the
\* Result the closure evaluates to and the process it started
ThreadBody(self, op, ver) ==
    LET o == comp[self.path_to_code]
        bin == Vyper_get_vyper(self)
        json == ParseJson(o.abiout)
        p == RanAt(bin, UnitArgs(op, ver), Some(self.path_to_code), CompilerRun(o))
        out(unit, res, fl) == [files |-> fl, unit |-> unit, res |-> res, proc |-> p]
    IN  IF ~Spawns(bin) THEN out(self, Res("err", "IoError", <<>>, <<>>), files)
        ELSE IF o.code # 0
        THEN out(self, Res("err", "CompilerError", FromUtf8Lossy(o.stderr), <<>>), files)
        ELSE IF op \in CompileOps
        THEN out([self EXCEPT !.bytecode = Some(ParseBytecode(o.stdout))],
                 Res("ok", "-", <<>>, <<>>), files)
        ELSE IF IsNone(json)
        THEN out(self, Res("err", "SerializationError", <<>>, <<>>), files)
        ELSE out(self, Res("ok", "-", <<>>, <<>>),
                 [files EXCEPT ![self.abi] = Some(ToWriterPretty(json[1]))])

\* the caller wraps a slice of units: VyperStack(&mut units)
Stack_construct(units) ==
    /\ pc = "new"
    /\ stack' = units
    /\ pc' = "idle"
    /\ ret' = [Ret("VyperStack", "ok", "-", <<>>, <<>>) EXCEPT !.args = <<Len(units)>>]
    /\ UNCHANGED <<windows, fs, comp, held, hist, u, vy, call, tasks, detached, files>>

\* thread::scope(|s| for i in self.0.iter_mut() { s.spawn(..) }): one thread a unit
Stack_start(op, ver) ==
    /\ pc = "idle"
    /\ pc' = "scope"
    /\ call' = [k |-> 1, op |-> op, order |-> <<>>, ver |-> ver, out_vec |-> <<>>]
    /\ tasks' = [i \in 1..Len(stack) |-> [st |-> "spawned", procs |-> <<>>, res |-> NoRes]]
    /\ ret' = NoRet
    /\ UNCHANGED <<windows, fs, comp, held, hist, u, stack, vy, detached, files>>

\* the thread of unit i runs to its end
Thread_run(i) ==
    /\ pc = "scope"
    /\ i \in 1..Len(tasks)
    /\ tasks[i].st = "spawned"
    /\ LET b == ThreadBody(stack[i], call.op, call.ver)
       IN  /\ stack' = [stack EXCEPT ![i] = b.unit]
           /\ files' = b.files
           /\ tasks' = [tasks EXCEPT ![i] = [st |-> "done", procs |-> <<b.proc>>,
                                             res |-> b.res]]
    /\ call' = [call EXCEPT !.order = Append(@, i)]
    /\ UNCHANGED <<windows, fs, comp, held, hist, u, vy, pc, detached, ret>>

\* the scope ends once every thread has: what the threads returned is dropped
\* with their handles, and the call evaluates to Ok(())
Stack_return ==
    /\ pc = "scope"
    /\ \A i \in 1..Len(tasks) : tasks[i].st = "done"
    /\ ret' = [Ret(call.op, "ok", "-", <<>>,
                   [i \in 1..Len(tasks) |-> tasks[i].procs[1]])
                 EXCEPT !.order = call.order]
    /\ pc' = "idle"
    /\ tasks' = <<>>
    /\ call' = NoCall
    /\ UNCHANGED <<windows, fs, comp, held, hist, u, stack, vy, detached, files>>

InitStack ==
    /\ windows \in BOOLEAN
    /\ fs \in BatchFs
    /\ comp \in {c \in [AllSrc -> Outcomes] : \A p \in AllSrc : c[p] \in SourceOutcomes(p)}
    /\ held = {}
    /\ hist = {}
    /\ u = Vyper_new([stem |-> "a", ext |-> "vy"])
    /\ stack = <<>>
    /\ vy = Vypers_default
    /\ call = NoCall
    /\ tasks = <<>>
    /\ pc = "new"
    /\ detached = {}
    /\ files = [f \in AllAbi |-> None]
    /\ ret = NoRet

NextStack ==
    \/ \E units \in SeqsUpTo(Units, MaxN) : Stack_construct(units)
    \/ \E op \in StackOps \ {"compile_many_ver"} : Stack_start(op, None)
    \/ \E ver \in EvmInputs : Stack_start("compile_many_ver", Some(ver))
    \/ \E i \in 1..MaxN : Thread_run(i)
    \/ Stack_return
    \/ \E path \in SrcPaths : \E o \in SourceOutcomes(path) : EditSource(path, o)

SpecStack == InitStack /\ [][NextStack]_vars

---------------------------------------------------------------------------
---------------------------------------------------------------------------
(* parse_blueprint (utils.rs 21-70).  A byte is a number in 0..255; byte index
   k of the source is element k + 1 of the sequence. *)

Blueprint(erc_version, preamble_data, initcode) ==
    [erc_version |-> erc_version, preamble_data |-> preamble_data,
     initcode |-> initcode]

\* hex::encode: two digits a byte, the high one first (a digit is its value)
HexEncode(bytes) ==
    [k \in 1..(2 * Len(bytes)) |->
        IF k % 2 = 1 THEN bytes[(k + 1) \div 2] \div 16 ELSE bytes[k \div 2] % 16]

\* the number a sequence of digits spells in a radix
RECURSIVE DigitsValue(_, _, _)
DigitsValue(digits, k, radix) ==
    IF k = 0 THEN 0 ELSE DigitsValue(digits, k - 1, radix) * radix + digits[k]

\* u32::from_str_radix(digits, radix): None for Err (a digit the radix lacks);
\* at most four digits are parsed here, so the u32 never overflows
FromStrRadix(digits, radix) ==
    IF Len(digits) = 0 \/ \E k \in 1..Len(digits) : digits[k] >= radix
    THEN None
    ELSE Some(DigitsValue(digits, Len(digits), radix))

\* what parse_blueprint gives: Ok(Blueprint), an Err, or a panic where a slice
\* or an index runs past the end of the input
BpOk(b) == [kind |-> "ok", err |-> "-", text |-> <<>>, value |-> b]
BpErr(err, text) == [kind |-> "err", err |-> err, text |-> text, value |-> <<>>]
BpPanic == [kind |-> "panic", err |-> "-", text |-> <<>>, value |-> <<>>]

\* the preamble data length, had the length bytes been read as a big-endian number
DataLength_BigEndian(size_temp) ==
    IF Len(size_temp) = 0 THEN Some(0)
    ELSE IF Len(size_temp) = 1 THEN Some(size_temp[1])
    ELSE Some(256 * size_temp[1] + size_temp[2])

\* let data_length = match size_temp.len() { 0 => 0, _ => from_str_radix(
\* hex::encode(&size_temp), size_temp.len() * 8) }: None for the IntParseError
DataLength(size_temp) ==
    IF Len(size_temp) = 0 THEN Some(0)
    ELSE FromStrRadix(HexEncode(size_temp), Len(size_temp) * 8)

\* the reserved-bits test, had it been left out
ReservedBits_Never(n_length_bytes) == FALSE

\* if n_length_bytes == 0b11
ReservedBits(n_length_bytes) == n_length_bytes = 3

parse_blueprint(bytecode) ==
    IF Len(bytecode) = 0 THEN BpErr("BlueprintError", <<"Empty Bytecode">>)
    ELSE IF Len(bytecode) < 2 THEN BpPanic
    ELSE IF SubSeq(bytecode, 1, 2) # <<254, 113>>
    THEN BpErr("BlueprintError", <<"Not a blueprint!">>)
    ELSE IF Len(bytecode) < 3 THEN BpPanic
    ELSE
    LET erc_version == bytecode[3] \div 4
        n_length_bytes == bytecode[3] % 4
    IN  IF ReservedBits(n_length_bytes)
        THEN BpErr("BlueprintError", <<"Reserved bits are set">>)
        ELSE IF Len(bytecode) < 3 + n_length_bytes THEN BpPanic
        ELSE
        LET size_temp == SubSeq(bytecode, 4, 3 + n_length_bytes)
            data_length == DataLength(size_temp)
        IN  IF IsNone(data_length) THEN BpErr("IntParseError", <<>>)
            ELSE
            LET data_start == 3 + n_length_bytes
                data_end == data_start + data_length[1]
                preamble_data ==
                    IF data_length[1] = 0 THEN None
                    ELSE Some(SubSeq(bytecode, data_start + 1, data_end))
                initcode == SubSeq(bytecode, data_end + 1, Len(bytecode))
            IN  IF Len(bytecode) < data_end THEN BpPanic
                ELSE IF Len(initcode) = 0
                THEN BpErr("BlueprintError", <<"Empty Initcode!">>)
                ELSE BpOk(Blueprint(erc_version, preamble_data, initcode))

\* the inputs: two bytes (the magic or not), the byte of version and length
\* encoding, up to two bytes that may be length bytes, and a body whose byte j
\* is j mod 256; the truncated inputs; the three vectors of the test parse_bp
BpMagics == {<<254, 113>>, <<254, 112>>, <<0, 113>>}
BpThirdBytes == {4 * v + e : v \in {0, 1, 63}, e \in 0..3}
BpLengthBytes == UNION {[1..k -> {0, 1, 7, 8, 16, 255}] : k \in 0..2}
BpBodyLengths == {0, 1, 2, 7, 8, 9, 16, 17, 255, 256, 257}
BpBody(n) == [j \in 1..n |-> j % 256]
BpCase1 == <<254, 113, 0, 0>>
BpCase2 == <<254, 113, 1, 7>> \o [j \in 1..7 |-> 255] \o <<0>>
BpCase3 == <<254, 113, 2, 1, 0>> \o [j \in 1..256 |-> 255] \o <<0>>
BlueprintInputs ==
    {m \o <<t>> \o l \o BpBody(n) :
        m \in BpMagics, t \in BpThirdBytes, l \in BpLengthBytes, n \in BpBodyLengths}
        \cup {<<>>, <<254>>, <<0>>, <<254, 113>>, BpCase1, BpCase2, BpCase3}

\* the caller has a byte sequence
InitBlueprint ==
    /\ windows = FALSE
    /\ fs = {GlobalVyper}
    /\ comp = [p \in AllSrc |-> OkA]
    /\ held = {}
    /\ hist = {}
    /\ u = Vyper_new([stem |-> "a", ext |-> "vy"])
    /\ stack = <<>>
    /\ vy = Vypers_default
    /\ call = NoCall
    /\ tasks = <<>>
    /\ pc = "new"
    /\ detached = {}
    /\ files = [f \in AllAbi |-> None]
    /\ \E bytecode \in BlueprintInputs : ret = [NoRet EXCEPT !.args = bytecode]

\* utils::parse_blueprint(&bytecode)
Call_parse_blueprint ==
    /\ ret.op = "-"
    /\ LET r == parse_blueprint(ret.args)
       IN  ret' = [Ret("parse_blueprint", r.kind, r.err, r.text, <<>>)
                     EXCEPT !.args = ret.args, !.value = r.value]
    /\ UNCHANGED <<windows, fs, comp, held, hist, u, stack, vy, call, tasks, pc,
                   detached, files>>

NextBlueprint == Call_parse_blueprint

SpecBlueprint == InitBlueprint /\ [][NextBlueprint]_vars

---------------------------------------------------------------------------
(* The single unit's other operations (vyper.rs 157-248), and the          *)
(* specification SpecUnit of one unit used by a caller.                    *)

UnitCompileOps == {"Vyper::compile", "Vyper::compile_ver", "Vyper::compile_blueprint"}
UnitAbiOps == {"Vyper::gen_abi", "Vyper::get_abi"}

\* the flags each method gives the compiler beside the path
Vyper_args(op, ver) ==
    CASE op = "Vyper::compile" -> <<>>
      [] op = "Vyper::compile_blueprint" -> <<<<"-f">>, <<"blueprint_bytecode">>>>
      [] op = "Vyper::compile_ver" -> <<<<"--evm-version">>, <<Evm_to_string(ver[1])>>>>
      [] op \in UnitAbiOps -> <<<<"-f">>, <<"abi">>>>

\* CompileWith, had the failure arm reset the bytecode field
CompileWith_FailureClears(self, op, ver) ==
    LET o == comp[self.path_to_code]
        bin == Vyper_get_vyper(self)
        p == RanAt(bin, Vyper_args(op, ver), Some(self.path_to_code), CompilerRun(o))
    IN  IF ~Spawns(bin)
        THEN [ret |-> Ret(op, "err", "IoError", <<>>, <<p>>), unit |-> self]
        ELSE IF o.code = 0
        THEN [ret |-> Ret(op, "ok", "-", <<>>, <<p>>),
              unit |-> [self EXCEPT !.bytecode = Some(ParseBytecode(o.stdout))]]
        ELSE [ret |-> Ret(op, "err", "CompilerError", FromUtf8Lossy(o.stderr), <<p>>),
              unit |-> [self EXCEPT !.bytecode = None]]

\* self.compile_blueprint() and self.compile_ver(ver): the body of compile with
\* other flags
CompileWith(self, op, ver) ==
    LET o == comp[self.path_to_code]
        bin == Vyper_get_vyper(self)
        p == RanAt(bin, Vyper_args(op, ver), Some(self.path_to_code), CompilerRun(o))
    IN  IF ~Spawns(bin)
        THEN [ret |-> Ret(op, "err", "IoError", <<>>, <<p>>), unit |-> self]
        ELSE IF o.code = 0
        THEN [ret |-> Ret(op, "ok", "-", <<>>, <<p>>),
              unit |-> [self EXCEPT !.bytecode = Some(ParseBytecode(o.stdout))]]
        ELSE [ret |-> Ret(op, "err", "CompilerError", FromUtf8Lossy(o.stderr), <<p>>),
              unit |-> self]

Vyper_compile_blueprint ==
    /\ u' = CompileWith(u, "Vyper::compile_blueprint", None).unit
    /\ ret' = CompileWith(u, "Vyper::compile_blueprint", None).ret
    /\ UNCHANGED <<windows, fs, comp, held, hist, stack, vy, call, tasks, pc, detached, files>>

Vyper_compile_ver(ver) ==
    /\ u' = CompileWith(u, "Vyper::compile_ver", Some(ver)).unit
    /\ ret' = [CompileWith(u, "Vyper::compile_ver", Some(ver)).ret EXCEPT !.args = <<ver>>]
    /\ UNCHANGED <<windows, fs, comp, held, hist, stack, vy, call, tasks, pc, detached, files>>

\* AbiOf, had gen_abi created the file before it parsed the compiler's stdout
AbiOf_CreateFirst(self, op) ==
    LET o == comp[self.path_to_code]
        bin == Vyper_get_vyper(self)
        json == ParseJson(o.abiout)
        p == RanAt(bin, Vyper_args(op, None), Some(self.path_to_code), CompilerRun(o))
        created == IF op = "Vyper::gen_abi" THEN [files EXCEPT ![self.abi] = Some(<<>>)]
                                            ELSE files
    IN  IF ~Spawns(bin)
        THEN [files |-> files, ret |-> Ret(op, "err", "IoError", <<>>, <<p>>)]
        ELSE IF o.code # 0
        THEN [files |-> files,
              ret |-> Ret(op, "err", "CompilerError", FromUtf8Lossy(o.stderr), <<p>>)]
        ELSE IF IsNone(json)
        THEN [files |-> created, ret |-> Ret(op, "err", "SerializationError", <<>>, <<p>>)]
        ELSE IF op = "Vyper::gen_abi"
        THEN [files |-> [files EXCEPT ![self.abi] = Some(ToWriterPretty(json[1]))],
              ret |-> Ret(op, "ok", "-", <<>>, <<p>>)]
        ELSE [files |-> files,
              ret |-> [Ret(op, "ok", "-", <<>>, <<p>>) EXCEPT !.value = json[1]]]

\* self.gen_abi() and self.get_abi() (&self): what is returned and the files
\* afterwards.  gen_abi parses, then File::create(&self.abi), then writes the
\* pretty-printed value; get_abi returns the value.
AbiOf(self, op) ==
    LET o == comp[self.path_to_code]
        bin == Vyper_get_vyper(self)
        json == ParseJson(o.abiout)
        p == RanAt(bin, Vyper_args(op, None), Some(self.path_to_code), CompilerRun(o))
    IN  IF ~Spawns(bin)
        THEN [files |-> files, ret |-> Ret(op, "err", "IoError", <<>>, <<p>>)]
        ELSE IF o.code # 0
        THEN [files |-> files,
              ret |-> Ret(op, "err", "CompilerError", FromUtf8Lossy(o.stderr), <<p>>)]
        ELSE IF IsNone(json)
        THEN [files |-> files, ret |-> Ret(op, "err", "SerializationError", <<>>, <<p>>)]
        ELSE IF op = "Vyper::gen_abi"
        THEN [files |-> [files EXCEPT ![self.abi] = Some(ToWriterPretty(json[1]))],
              ret |-> Ret(op, "ok", "-", <<>>, <<p>>)]
        ELSE [files |-> files,
              ret |-> [Ret(op, "ok", "-", <<>>, <<p>>) EXCEPT !.value = json[1]]]

Vyper_gen_abi ==
    /\ ret' = AbiOf(u, "Vyper::gen_abi").ret
    /\ files' = AbiOf(u, "Vyper::gen_abi").files
    /\ UNCHANGED <<windows, fs, comp, held, hist, u, stack, vy, call, tasks, pc, detached>>

Vyper_get_abi ==
    /\ ret' = AbiOf(u, "Vyper::get_abi").ret
    /\ files' = AbiOf(u, "Vyper::get_abi").files
    /\ UNCHANGED <<windows, fs, comp, held, hist, u, stack, vy, call, tasks, pc, detached>>

\* the caller builds another unit with Vyper::with_abi
Vyper_construct_with_abi(path, abi) ==
    /\ u' = Vyper_with_abi(path, abi)
    /\ ret' = Ret("Vyper::with_abi", "ok", "-", <<>>, <<>>)
    /\ UNCHANGED <<windows, fs, comp, held, hist, stack, vy, call, tasks, pc, detached, files>>

\* one unit on a.vy; the compiler is installed globally, and in ./venv or not
InitUnit ==
    /\ windows = FALSE
    /\ fs \in BatchFs
    /\ comp = [p \in AllSrc |-> OkA]
    /\ held = {}
    /\ hist = {}
    /\ u = Vyper_new([stem |-> "a", ext |-> "vy"])
    /\ stack = <<>>
    /\ vy = Vypers_default
    /\ call = NoCall
    /\ tasks = <<>>
    /\ pc = "idle"
    /\ detached = {}
    /\ files = [f \in AllAbi |-> None]
    /\ ret = NoRet

NextUnit ==
    \/ Vyper_compile
    \/ Vyper_compile_blueprint
    \/ \E ver \in Evm : Vyper_compile_ver(ver)
    \/ Vyper_gen_abi
    \/ Vyper_get_abi
    \/ \E venv \in {None} \cup {Some(r) : r \in VenvRoots} :
          Vyper_construct(u.path_to_code, venv)
    \/ \E abi \in AbiPaths : Vyper_construct_with_abi(u.path_to_code, abi)
    \/ \E o \in Outcomes : EditSource(u.path_to_code, o)

SpecUnit == InitUnit /\ [][NextUnit]_vars

---------------------------------------------------------------------------
(* scan_workspace as three tasks (utils.rs 72-88), specification SpecScan. *)
(* Here an entry of a listing also names its directory, as                 *)
(* DirEntry::path() does; ret.args holds the three listings of the call.   *)

ScanDirs == <<"root", "contracts", "src">>
ScanEntries(d) == {[dir |-> d, stem |-> "a", ext |-> "vy"],
                   [dir |-> d, stem |-> ".vy", ext |-> ""]}
ScanListings(d) == {None} \cup {Some(l) : l \in SeqsUpTo(ScanEntries(d), MaxDir)}

\* the handle the k-th turn of the loop awaits, had it been the one of the
\* task that finished k-th
ScanAwait_Arrival(k, order) == IF Len(order) >= k THEN order[k] ELSE k

\* the handle the k-th turn of the loop awaits: for i in [h1, h2, h3].into_iter()
ScanAwait(k, order) == k

\* the caller calls scan_workspace(root): h1, h2 and h3 are spawned
Scan_start(listings) ==
    /\ pc = "idle"
    /\ pc' = "scanning"
    /\ call' = [k |-> 1, op |-> "scan_workspace", order |-> <<>>, ver |-> None,
                out_vec |-> <<>>]
    /\ tasks' = [i \in 1..3 |-> [st |-> "spawned", res |-> None]]
    /\ ret' = [NoRet EXCEPT !.args = listings]
    /\ UNCHANGED <<windows, fs, comp, held, hist, u, stack, vy, detached, files>>

\* the runtime runs task i to its end: get_contracts_in_dir of its directory
Scan_task_run(i) ==
    /\ pc = "scanning"
    /\ i \in 1..Len(tasks)
    /\ tasks[i].st = "spawned"
    /\ tasks' = [tasks EXCEPT ![i] = [st |-> "done",
                                      res |-> get_contracts_in_dir(ret.args[i])]]
    /\ call' = [call EXCEPT !.order = Append(@, i)]
    /\ UNCHANGED <<windows, fs, comp, held, hist, u, stack, vy, pc, detached, files, ret>>

\* task i ends without a result (the runtime shuts down): its handle gives Err(JoinError)
Scan_task_fail(i) ==
    /\ pc = "scanning"
    /\ i \in 1..Len(tasks)
    /\ tasks[i].st = "spawned"
    /\ tasks' = [tasks EXCEPT ![i] = [st |-> "failed", res |-> None]]
    /\ call' = [call EXCEPT !.order = Append(@, i)]
    /\ UNCHANGED <<windows, fs, comp, held, hist, u, stack, vy, pc, detached, files, ret>>

\* one turn of the loop: match i.await { Ok(Ok(x)) => x, _ => Vec::new() }; res.push(result)
Scan_join ==
    /\ pc = "scanning"
    /\ Len(call.out_vec) < 3
    /\ LET j == ScanAwait(call.k, call.order)
           t == tasks[j]
       IN  /\ t.st # "spawned"
           /\ call' = [call EXCEPT !.k = @ + 1,
                                   !.out_vec = Append(@, IF t.st = "done" /\ IsSome(t.res)
                                                         THEN t.res[1] ELSE <<>>)]
    /\ UNCHANGED <<windows, fs, comp, held, hist, u, stack, vy, tasks, pc, detached,
                   files, ret>>

\* Ok(res.into_iter().flatten().collect())
Scan_finish ==
    /\ pc = "scanning"
    /\ Len(call.out_vec) = 3
    /\ ret' = [Ret("scan_workspace", "ok", "-", <<>>, <<>>)
                 EXCEPT !.args = ret.args,
                        !.value = call.out_vec[1] \o call.out_vec[2] \o call.out_vec[3],
                        !.order = call.order,
                        !.procs = [i \in 1..3 |-> tasks[i].st]]
    /\ pc' = "idle"
    /\ tasks' = <<>>
    /\ call' = NoCall
    /\ UNCHANGED <<windows, fs, comp, held, hist, u, stack, vy, detached, files>>

InitScan ==
    /\ windows = FALSE
    /\ fs = {GlobalVyper}
    /\ comp = [p \in AllSrc |-> OkA]
    /\ held = {}
    /\ hist = {}
    /\ u = Vyper_new([stem |-> "a", ext |-> "vy"])
    /\ stack = <<>>
    /\ vy = Vypers_default
    /\ call = NoCall
    /\ tasks = <<>>
    /\ pc = "idle"
    /\ detached = {}
    /\ files = [f \in AllAbi |-> None]
    /\ ret = NoRet

NextScan ==
    \/ \E r \in ScanListings(ScanDirs[1]) : \E c \in ScanListings(ScanDirs[2]) :
          \E s \in ScanListings(ScanDirs[3]) : Scan_start(<<r, c, s>>)
    \/ \E i \in 1..3 : Scan_task_run(i)
    \/ \E i \in 1..3 : Scan_task_fail(i)
    \/ Scan_join
    \/ Scan_finish

SpecScan == InitScan /\ [][NextScan]_vars

---------------------------------------------------------------------------
(* The claims about the lifecycle, checked under SpecVenv *)

\* a compiler run on a source file is in the log of the last operation
CompilerInvoked == \E k \in 1..Len(ret.procs) : IsSome(ret.procs[k].src)

\* C4 as stated: a compile operation (of the Venv namespace or of the Vyper
\* module) invokes the compiler only after the lifecycle reached Ready or
\* Complete through a successful install or try_ready.
C4_CompileOnlyAfterReady ==
    (ret.op \in VenvCompileMethods \cup {"Vyper::compile"} /\ CompilerInvoked)
        => /\ held \cap {"Ready", "Complete"} # {}
           /\ hist \cap {"ivyper_venv", "try_ready_venv",
                         "ivyper_pip", "try_ready_skip"} # {}

\* C4 amended: the compile operations of the Venv namespace are called only on
\* a Venv<Ready>, which exists only after ivyper_venv or Venv<Initialized>::
\* try_ready returned Ok; Vyper::compile is callable in every lifecycle state.
C4_VenvCompileOnlyWhenReady ==
    /\ ret.op \in VenvCompileMethods
          => /\ "Ready" \in held
             /\ hist \cap {"ivyper_venv", "try_ready_venv"} # {}
    /\ ENABLED Vyper_compile

C4_Witness ==
    /\ ret.op = "Venv::compile"
    /\ ret.kind = "ok"
    /\ IsSome(u.bytecode)

\* C5: the only transitions are NotInitialized -init-> Initialized,
\* NotInitialized -skip-> Skip, Initialized -ivyper_venv / try_ready-> Ready and
\* Skip -ivyper_pip / try_ready-> Complete; nothing leaves Ready or Complete; a
\* Ready (Complete) value exists only after init (skip) and then a successful
\* install or try_ready.
C5_From(m) ==
    CASE m \in {"init", "skip"} -> "NotInitialized"
      [] m \in {"ivyper_venv", "try_ready_venv"} -> "Initialized"
      [] m \in {"ivyper_pip", "try_ready_skip"} -> "Skip"
C5_To(m) ==
    CASE m = "init" -> "Initialized"
      [] m = "skip" -> "Skip"
      [] m \in {"ivyper_venv", "try_ready_venv"} -> "Ready"
      [] m \in {"ivyper_pip", "try_ready_skip"} -> "Complete"
C5_Step ==
    \A s \in held' \ held :
        \/ s = "NotInitialized" /\ ret'.op = "new"
        \/ \E m \in LifecycleMethods :
              /\ ret'.op = m /\ ret'.kind = "ok"
              /\ C5_From(m) \in held
              /\ C5_From(m) \notin {"Ready", "Complete"}
              /\ s = C5_To(m)
C5_Reached ==
    /\ "Ready" \in held
          => "init" \in hist /\ hist \cap {"ivyper_venv", "try_ready_venv"} # {}
    /\ "Complete" \in held
          => "skip" \in hist /\ hist \cap {"ivyper_pip", "try_ready_skip"} # {}
    /\ "Initialized" \in held => "init" \in hist
    /\ "Skip" \in held => "skip" \in hist
    /\ hist # {} => "NotInitialized" \in held
C5_OnlyTransitions == [][C5_Step /\ C5_Reached']_vars

C5_Witness == "Ready" \in held /\ "Complete" \in held

\* the runs of a package manager in the log of the last operation
IsPip(p) == p.bin[Len(p.bin)] = "pip3"
PipRuns(r) == {k \in 1..Len(r.procs) : IsPip(r.procs[k])}

\* C6: when pip exits non-zero during ivyper_venv or ivyper_pip, the call
\* returns an error whose text is that process's stderr, produces no Ready or
\* Complete value, and has run pip exactly once (no retry, no other installer).
C6_Step ==
    (/\ ret'.op \in {"ivyper_venv", "ivyper_pip"}
     /\ \E k \in 1..Len(ret'.procs) : ret'.procs[k].st = "fail")
        => /\ ret'.kind = "err"
           /\ Len(ret'.procs) = 1
           /\ IsPip(ret'.procs[1])
           /\ ret'.text = ret'.procs[1].stderr
           /\ held' = held
           /\ hist' = hist
           /\ fs' = fs
C6_PipFailureSurfaces == [][C6_Step]_vars

C6_Witness ==
    /\ ret.op = "ivyper_venv"
    /\ ret.kind = "err"
    /\ ret.text = <<"p", "2">>
    /\ "Ready" \notin held

\* C7: whenever init() returns Ok, the environment directory and its runtime
\* both exist, whatever init calls came before.
C7_InitOkMeansEnvironment ==
    (ret.op = "init" /\ ret.kind = "ok")
        => /\ <<".", "venv">> \in fs
           /\ (IF windows THEN <<".", "venv", "scripts", "pip3">>
                          ELSE <<".", "venv", "bin", "pip3">>) \in fs

\* C8: try_ready on Initialized returns Ok (a Ready) exactly when the compiler
\* exists at its path in the venv, else the not-installed error; try_ready on
\* Skip returns Ok (a Complete) exactly when the compiler resolves globally;
\* neither runs pip nor changes the file system, so a repeated call gives the
\* same result.
C8_Step ==
    /\ ret'.op = "try_ready_venv"
          => /\ (ret'.kind = "ok") <=>
                   ((IF windows THEN <<".", "venv", "scripts", "vyper">>
                                ELSE <<".", "venv", "bin", "vyper">>) \in fs)
             /\ ret'.kind = "ok" => "Ready" \in held'
             /\ ret'.kind # "ok" =>
                   /\ ret'.kind = "err"
                   /\ ret'.text = <<"Vyper was not installed in venv">>
                   /\ held' = held
    /\ ret'.op = "try_ready_skip"
          => /\ (ret'.kind = "ok") <=> (<<"vyper">> \in fs)
             /\ ret'.kind = "ok" => "Complete" \in held'
             /\ ret'.kind # "ok" =>
                   /\ ret'.kind = "err"
                   /\ ret'.text = <<"Vyper not installed">>
                   /\ held' = held
    /\ ret'.op \in {"try_ready_venv", "try_ready_skip"}
          => /\ PipRuns(ret') = {}
             /\ fs' = fs
             /\ u' = u
C8_TryReadyChecksOnly == [][C8_Step]_vars

C8_Witness ==
    /\ ret.op = "try_ready_venv"
    /\ ret.kind = "err"
    /\ "Complete" \in held
    /\ "try_ready_skip" \in hist

---------------------------------------------------------------------------
(* The claims about the batches, checked under Spec and SpecStack *)

\* the last operation was a batch call of N units that returned Ok
BatchOk(ops) == ret.op \in ops /\ ret.kind = "ok"

\* C1: for every batch and every order in which its tasks finish, a successful
\* compile_many / compile_many_ver leaves bytecode[i] equal to what the compiler
\* produced for path_to_code[i], and a successful get_abi_many returns the ABI
\* produced for path_to_code[i] at index i, for every i.
C1_IndexAligned ==
    /\ BatchOk(CompileOps)
          => /\ IsSome(vy.bytecode)
             /\ Len(vy.bytecode[1]) = Len(vy.path_to_code)
             /\ \A i \in 1..Len(vy.path_to_code) :
                   vy.bytecode[1][i] = ParseBytecode(comp[vy.path_to_code[i]].stdout)
    /\ BatchOk({"get_abi_many"})
          => /\ Len(ret.value) = Len(vy.path_to_code)
             /\ \A i \in 1..Len(vy.path_to_code) :
                   Some(ret.value[i]) = ParseJson(comp[vy.path_to_code[i]].abiout)

C1_Witness ==
    /\ BatchOk({"compile_many"})
    /\ Len(vy.path_to_code) = 2
    /\ ret.order = <<2, 1>>
    /\ vy.bytecode[1][1] # vy.bytecode[1][2]

\* C2 as stated: with_all on N source paths and M ABI paths, N # M, returns a
\* length-mismatch error value, makes no batch and starts no compiler process.
C2_MismatchReturnsError ==
    (ret.op = "with_all" /\ ret.args[1] # ret.args[2])
        => /\ ret.kind = "err"
           /\ pc = "new"
           /\ ret.procs = <<>>

\* C2 amended: with_all on N source paths and M ABI paths, N # M, panics with
\* the message "Mismatched Vector Lengths" (it returns nothing), makes no batch
\* and starts no compiler process; with N = M it returns the batch.
C2_MismatchPanics ==
    /\ (ret.op = "with_all" /\ ret.args[1] # ret.args[2])
          => /\ ret.kind = "panic"
             /\ ret.text = <<"Mismatched Vector Lengths">>
             /\ pc = "new"
             /\ vy = Vypers_default
             /\ ret.procs = <<>>
             /\ tasks = <<>>
    /\ (ret.op = "with_all" /\ ret.args[1] = ret.args[2])
          => ret.kind = "ok" /\ Len(vy.path_to_code) = ret.args[1]

C2_Witness ==
    /\ ret.op = "with_all"
    /\ ret.args = <<2, 1>>
    /\ ret.kind = "panic"

\* C3: every batch call, those of VyperStack included, returns an error when
\* the compiler run of at least one of its units failed; none returns Ok then.
C3_UnitFailureFailsBatch ==
    (/\ ret.op \in BatchOps
     /\ \E k \in 1..Len(ret.procs) : ret.procs[k].st # "ok")
        => ret.kind = "err"

\* C9: in every Vypers value reachable through the constructors and the batch
\* calls, path_to_code and abi have the same length.
C9_PathsAndAbisAligned == Len(vy.path_to_code) = Len(vy.abi)

C9_Witness ==
    /\ BatchOk({"gen_abi_many"})
    /\ Len(vy.abi) = 2
    /\ IsSome(vy.venv)

\* C10: at every point, after any sequence of successful and failed
\* compile_many / compile_many_ver calls, bytecode is absent or has exactly
\* len(path_to_code) entries; it is present after every successful batch
\* compile; a partially filled result is never there.
C10_BytecodeAllOrNothing ==
    /\ IsNone(vy.bytecode) \/ Len(vy.bytecode[1]) = Len(vy.path_to_code)
    /\ BatchOk(CompileOps) => IsSome(vy.bytecode)

C10_Witness ==
    /\ ret.op = "compile_many"
    /\ ret.kind = "err"
    /\ ret.order = <<1, 2>>
    /\ IsSome(vy.bytecode)
    /\ Len(vy.path_to_code) = 2

---------------------------------------------------------------------------
(* The claims about failures of the batch calls, checked under Spec *)

\* the tasks of the call in progress whose compiler run exited non-zero
FailedTasks(ts) ==
    {i \in 1..Len(ts) : Len(ts[i].procs) = 1 /\ ts[i].procs[1].st = "fail"}

\* C11: when the compiler exits non-zero for at least one unit during
\* compile_many or compile_many_ver, the call returns a CompilerError whose text
\* is the stderr of such a unit, no unit's compiler is run twice, and the batch
\* (bytecode, path_to_code, abi, venv) is as it was before the call.
C11_Step ==
    (pc = "joining" /\ call.op \in CompileOps)
        => /\ \A i \in 1..Len(tasks') : Len(tasks'[i].procs) <= 1
           /\ (pc' = "idle" /\ FailedTasks(tasks) # {})
                 => /\ ret'.op = call.op
                    /\ ret'.kind = "err"
                    /\ ret'.err = "CompilerError"
                    /\ \E i \in FailedTasks(tasks) : ret'.text = tasks[i].procs[1].stderr
           /\ ~(pc' = "idle" /\ ret'.kind = "ok" /\ FailedTasks(tasks) = {})
                 => vy' = vy
C11_FailureFrame == [][C11_Step]_vars

C11_Witness ==
    /\ ret.op = "compile_many_ver"
    /\ ret.kind = "err"
    /\ ret.err = "CompilerError"
    /\ ret.text = <<"e", "2">>
    /\ Len(vy.path_to_code) = 2
    /\ IsSome(vy.bytecode)

---------------------------------------------------------------------------
(* Vypers under a fair runtime: the tokio scheduler runs every spawned task,
   awaited or detached, and the caller's future is polled until it returns *)

\* the closures of the batches made by Vypers::new, for compile_many and
\* gen_abi_many
LiveClosures ==
    {Closure(op, 1, <<p>>, MapExt(<<p>>), GlobalVyper, None) :
        op \in {"compile_many", "gen_abi_many"}, p \in SrcPaths}

InitLive ==
    /\ Init
    /\ windows = FALSE
    /\ fs = {GlobalVyper}

NextLive ==
    \/ \E paths \in SeqsUpTo(SrcPaths, MaxN) : Call_new(paths)
    \/ \E op \in {"compile_many", "gen_abi_many"} : Vypers_start(op, None)
    \/ \E i \in 1..MaxN : Task_run(i)
    \/ Vypers_join
    \/ Vypers_finish
    \/ \E c \in detached : Detached_run(c)

SpecLive ==
    /\ InitLive
    /\ [][NextLive]_vars
    /\ \A i \in 1..MaxN : WF_vars(Task_run(i))
    /\ WF_vars(Vypers_join)
    /\ \A c \in LiveClosures : WF_vars(Detached_run(c))

\* C12: when a unit of a batch call fails, the sibling tasks that were spawned
\* are not cancelled: those still running when the call returns its error run
\* on detached, and every spawned task, awaited or detached, eventually runs
\* its compiler to the end.
SomeSpawned == \E i \in 1..Len(tasks) : tasks[i].st = "spawned"
C12_Step ==
    (pc = "joining" /\ pc' = "idle" /\ ret'.kind = "err")
        => /\ \A i \in 1..Len(tasks) :
                 tasks[i].st = "spawned" => tasks[i].c \in detached'
           /\ detached \subseteq detached'
---------------------------------------------------------------------------
(* The claims about parse_blueprint, checked under SpecBlueprint *)

\* parse_blueprint has returned for the input ret.args
Parsed == ret.op = "parse_blueprint"

\* the bytes that spell a preamble length n in e length bytes, big-endian
LengthBytes(e, n) ==
    IF e = 0 THEN <<>> ELSE IF e = 1 THEN <<n>> ELSE <<n \div 256, n % 256>>

\* the ERC-5202 encoding of a container with e length bytes: 0xFE 0x71, the
\* byte of version and length encoding, the length bytes, the data, the initcode
Encode(x, e) ==
    LET data == IF IsSome(x.preamble_data) THEN x.preamble_data[1] ELSE <<>>
    IN  <<254, 113, 4 * x.erc_version + e>> \o LengthBytes(e, Len(data)) \o data
            \o x.initcode

\* the valid containers the input may be the encoding of, with e length bytes:
\* a preamble of n bytes, n fitting e bytes, and a non-empty initcode
Containers(bytes, e) ==
    {Blueprint(bytes[3] \div 4,
               IF n = 0 THEN None ELSE Some(SubSeq(bytes, 4 + e, 3 + e + n)),
               SubSeq(bytes, 4 + e + n, Len(bytes))) :
        n \in {k \in 0..(Len(bytes) - 4 - e) : (e = 0 => k = 0) /\ (e = 1 => k < 256)}}

\* C13: for every valid container x (version 0..63, length encoding 0, 1 or 2,
\* preamble of the declared length, non-empty initcode), parse_blueprint of the
\* encoding of x returns exactly x.
C13_RoundTrip ==
    (Parsed /\ Len(ret.args) >= 4)
        => \A e \in 0..2 : \A x \in Containers(ret.args, e) :
              Encode(x, e) = ret.args => ret.kind = "ok" /\ ret.value = x


\* the input has the magic bytes, a length encoding e of 0, 1 or 2 and its e
\* length bytes
HasLengthBytes ==
    /\ Parsed
    /\ Len(ret.args) >= 3
    /\ SubSeq(ret.args, 1, 2) = <<254, 113>>
    /\ ret.args[3] % 4 < 3
    /\ Len(ret.args) >= 3 + (ret.args[3] % 4)
SizeTemp == SubSeq(ret.args, 4, 3 + (ret.args[3] % 4))

\* C14: the preamble data length parse_blueprint computes is the big-endian
\* number the length bytes spell: 0 for no length byte, b3 for one, 256 * b3 +
\* b4 for two, for every value of those bytes.
C14_LengthIsBigEndian ==
    HasLengthBytes
        => DataLength(SizeTemp) =
              Some(IF Len(SizeTemp) = 0 THEN 0
                   ELSE IF Len(SizeTemp) = 1 THEN SizeTemp[1]
                   ELSE 256 * SizeTemp[1] + SizeTemp[2])


\* C15 as stated: parse_blueprint fails with the reserved-bits error whenever
\* the bottom two bits of byte index 2 are 0b11, whatever the other bytes are
\* and however many follow.
C15_ReservedWhateverElse ==
    (Parsed /\ Len(ret.args) >= 3 /\ ret.args[3] % 4 = 3)
        => /\ ret.kind = "err"
           /\ ret.text = <<"Reserved bits are set">>

\* C15 amended: when the input starts with the magic bytes 0xFE 0x71 and the
\* bottom two bits of byte index 2 are 0b11, parse_blueprint fails with the
\* reserved-bits error, whatever the version bits are and whatever bytes follow;
\* an input of two or more bytes that does not start with the magic bytes fails
\* with the not-a-blueprint error before byte index 2 is looked at.
C15_ReservedAfterMagic ==
    /\ (Parsed /\ Len(ret.args) >= 3 /\ SubSeq(ret.args, 1, 2) = <<254, 113>>
           /\ ret.args[3] % 4 = 3)
          => /\ ret.kind = "err"
             /\ ret.err = "BlueprintError"
             /\ ret.text = <<"Reserved bits are set">>
    /\ (Parsed /\ Len(ret.args) >= 2 /\ SubSeq(ret.args, 1, 2) # <<254, 113>>)
          => /\ ret.kind = "err"
             /\ ret.text = <<"Not a blueprint!">>

C15_Witness ==
    /\ Parsed
    /\ Len(ret.args) > 257
    /\ ret.args[3] = 255
    /\ ret.text = <<"Reserved bits are set">>


\* the number of bytes the container declares for its preamble data
DeclaredLength == DataLength_BigEndian(SizeTemp)[1]

\* C16: the empty input fails with the empty-input error; every input with the
\* magic bytes and a length encoding of 0, 1 or 2 whose initcode region (what
\* follows the header, the length bytes and the declared preamble data) is
\* empty fails with the empty-initcode error; a Blueprint that is returned has
\* a non-empty initcode.
C16_EmptyRegions ==
    /\ (Parsed /\ ret.args = <<>>)
          => ret.kind = "err" /\ ret.text = <<"Empty Bytecode">>
    /\ (HasLengthBytes /\ Len(ret.args) = 3 + Len(SizeTemp) + DeclaredLength)
          => ret.kind = "err" /\ ret.text = <<"Empty Initcode!">>
    /\ (Parsed /\ ret.kind = "ok") => Len(ret.value.initcode) > 0


\* C17: for a well-formed container (magic, length encoding 0, 1 or 2, its
\* length bytes, the declared number of preamble bytes and at least one byte
\* after them) parse_blueprint returns the top six bits of byte index 2 as
\* erc_version, Some of exactly the declared preamble bytes (None when none is
\* declared) and all the remaining bytes as initcode, so that 3 + length
\* encoding + len(preamble) + len(initcode) is the input's length.
C17_FieldsOfWellFormed ==
    (HasLengthBytes /\ Len(ret.args) > 3 + Len(SizeTemp) + DeclaredLength)
        => /\ ret.kind = "ok"
           /\ ret.value.erc_version = ret.args[3] \div 4
           /\ ret.value.erc_version \in 0..63
           /\ ret.value.preamble_data =
                 (IF DeclaredLength = 0 THEN None
                  ELSE Some(SubSeq(ret.args, 4 + Len(SizeTemp),
                                   3 + Len(SizeTemp) + DeclaredLength)))
           /\ ret.value.initcode =
                 SubSeq(ret.args, 4 + Len(SizeTemp) + DeclaredLength, Len(ret.args))
           /\ 3 + Len(SizeTemp) + DeclaredLength + Len(ret.value.initcode)
                 = Len(ret.args)

\* the three vectors of the test parse_bp come out as the test expects
TestVectorsParse ==
    /\ parse_blueprint(BpCase1) = BpOk(Blueprint(0, None, <<0>>))
    /\ parse_blueprint(BpCase2) = BpOk(Blueprint(0, Some([j \in 1..7 |-> 255]), <<0>>))
    /\ parse_blueprint(BpCase3) = BpOk(Blueprint(0, Some([j \in 1..256 |-> 255]), <<0>>))


---------------------------------------------------------------------------
(* The claims about the single unit's operations, checked under SpecUnit *)

\* the compiler as the unit would run it now: it starts, and how it exits
UnitCompilerStarts == Spawns(Vyper_get_vyper(u))
UnitOutcome == comp[u.path_to_code]

\* C18: when the compiler exits non-zero, Vyper::compile, compile_ver and
\* compile_blueprint return CompilerError carrying the process's stderr and
\* leave the whole unit (bytecode absent or from an earlier run, paths, venv)
\* as it was before the call.
C18_Step ==
    (ret'.op \in UnitCompileOps /\ UnitCompilerStarts /\ UnitOutcome.code # 0)
        => /\ ret'.kind = "err"
           /\ ret'.err = "CompilerError"
           /\ ret'.text = FromUtf8Lossy(UnitOutcome.stderr)
           /\ u' = u
C18_FailureLeavesUnit == [][C18_Step]_vars

\* compile_blueprint failed on a unit with a venv that held the bytecode of an
\* earlier run
C18_Witness ==
    /\ ret.op = "Vyper::compile_blueprint"
    /\ ret.kind = "err"
    /\ ret.err = "CompilerError"
    /\ ret.text = <<"e", "2">>
    /\ IsSome(u.bytecode)
    /\ IsSome(u.venv)


\* str::trim: the text without its leading and its trailing whitespace
RECURSIVE TrimStart(_)
TrimStart(s) == IF Len(s) > 0 /\ IsWs(s[1]) THEN TrimStart(Tail(s)) ELSE s
RECURSIVE TrimEnd(_)
TrimEnd(s) == IF Len(s) > 0 /\ IsWs(s[Len(s)]) THEN TrimEnd(Pop(s)) ELSE s
Trim(s) == TrimEnd(TrimStart(s))

\* C19: when the compiler exits zero, Vyper::compile stores as bytecode the
\* compiler's stdout with its surrounding whitespace trimmed and nothing else
\* removed, whatever the stdout (trailing newline or not, leading 0x or not).
C19_StoresTrimmedStdout ==
    (ret.op = "Vyper::compile" /\ ret.kind = "ok")
        => u.bytecode = Some(Trim(FromUtf8Lossy(UnitOutcome.stdout)))


\* C20: get_abi leaves the file system and the unit unchanged in every outcome;
\* gen_abi leaves the unit unchanged and creates or overwrites only the file at
\* the unit's abi path, and only when the compiler exited zero and its stdout
\* parsed as JSON (the file then holds the pretty-printed value).  On non-zero
\* exit both return CompilerError and on invalid JSON both return
\* SerializationError, and in either failure no file is created or modified.
C20_Step ==
    /\ ret'.op = "Vyper::get_abi" => (files' = files /\ fs' = fs /\ u' = u)
    /\ ret'.op = "Vyper::gen_abi"
          => /\ u' = u
             /\ fs' = fs
             /\ \A f \in AllAbi : f # u.abi => files'[f] = files[f]
             /\ files' # files
                   => /\ UnitOutcome.code = 0
                      /\ IsSome(ParseJson(UnitOutcome.abiout))
                      /\ ret'.kind = "ok"
             /\ ret'.kind = "ok"
                   => files'[u.abi] = Some(ToWriterPretty(ParseJson(UnitOutcome.abiout)[1]))
    /\ (ret'.op \in UnitAbiOps /\ UnitCompilerStarts /\ UnitOutcome.code # 0)
          => /\ ret'.kind = "err"
             /\ ret'.err = "CompilerError"
             /\ ret'.text = FromUtf8Lossy(UnitOutcome.stderr)
             /\ files' = files
    /\ (ret'.op \in UnitAbiOps /\ UnitCompilerStarts /\ UnitOutcome.code = 0
          /\ IsNone(ParseJson(UnitOutcome.abiout)))
          => /\ ret'.kind = "err"
             /\ ret'.err = "SerializationError"
             /\ files' = files
---------------------------------------------------------------------------
(* The claims that compare two APIs *)

\* what Vyper::compile returns and stores for the unit's source when the unit
\* names ./venv as its environment root, i.e. runs the binary Venv<Ready> runs
GlobalCompile == CompileUnit(Vyper_with_venv(u.path_to_code, VenvDir), "Venv::compile")

\* C21: for the same source and the same compiler exit status, stdout and
\* stderr, Venv<Ready>::compile and Vyper::compile store the same bytecode and
\* report the same outcome (checked under SpecVenv, where the last operation's
\* compiler output is still comp[u.path_to_code]).
C21_VenvSameAsGlobal ==
    (ret.op = "Venv::compile" /\ Spawns(VenvVyperPath))
        => /\ ret.kind = GlobalCompile.ret.kind
           /\ ret.err = GlobalCompile.ret.err
           /\ ret.text = GlobalCompile.ret.text
           /\ ret.kind = "ok" => u.bytecode = GlobalCompile.unit.bytecode


---------------------------------------------------------------------------
(* Further claims about the batches, checked under Spec *)

\* the ABI file the compiler's output for source p is written as
AbiFileOf(p) == Some(ToWriterPretty(ParseJson(comp[p].abiout)[1]))

\* C22: after a successful gen_abi_many, for every index i the file at abi[i]
\* holds the ABI produced for path_to_code[i], whatever the order in which the
\* tasks finished and also when two units name the same ABI path, and no file
\* that abi does not name has been written.
C22_EveryAbiWritten ==
    (ret.op = "gen_abi_many" /\ ret.kind = "ok")
        => /\ \A i \in 1..Len(vy.abi) : files[vy.abi[i]] = AbiFileOf(vy.path_to_code[i])
           /\ \A f \in AllAbi : (\A i \in 1..Len(vy.abi) : vy.abi[i] # f) => IsNone(files[f])


\* what does hold: an ABI path that one unit only names holds that unit's ABI
AbiOfUnsharedPaths ==
    (ret.op = "gen_abi_many" /\ ret.kind = "ok")
        => /\ \A i \in 1..Len(vy.abi) :
                 (\A j \in 1..Len(vy.abi) : vy.abi[j] = vy.abi[i] => j = i)
                    => files[vy.abi[i]] = AbiFileOf(vy.path_to_code[i])
           /\ \A f \in AllAbi : (\A i \in 1..Len(vy.abi) : vy.abi[i] # f) => IsNone(files[f])


\* C23: the batch made from a list of units (From<Vec<Vyper>>, vypers!) has
\* for every index i the source path and the ABI path of the i-th unit, as the
\* batch constructed directly from those paths has.  ret.args is the list.
C23_FromKeepsPaths ==
    ret.op = "from"
        => /\ Len(vy.path_to_code) = Len(ret.args)
           /\ Len(vy.abi) = Len(ret.args)
           /\ \A i \in 1..Len(ret.args) :
                 /\ vy.path_to_code[i] = ret.args[i].path_to_code
                 /\ vy.abi[i] = ret.args[i].abi


---------------------------------------------------------------------------
(* The claim about the EVM targets, checked under SpecUnit *)

\* the closed enumeration of EVM targets and the lower-case form of each name
EvmTargets == {"Byzantium", "Constantinople", "Petersburg", "Istanbul", "Berlin",
               "Paris", "Shanghai", "Cancun", "Atlantis", "Agharta"}
LowerCase(t) ==
    CASE t = "Byzantium" -> "byzantium"
      [] t = "Constantinople" -> "constantinople"
      [] t = "Petersburg" -> "petersburg"
      [] t = "Istanbul" -> "istanbul"
      [] t = "Berlin" -> "berlin"
      [] t = "Paris" -> "paris"
      [] t = "Shanghai" -> "shanghai"
      [] t = "Cancun" -> "cancun"
      [] t = "Atlantis" -> "atlantis"
      [] t = "Agharta" -> "agharta"
EvmFlags == {LowerCase(t) : t \in EvmTargets}

\* C24: every compiler invocation of compile_ver is given, after
\* --evm-version, the flag of the target the caller passed, which is the
\* lower-case name of one target of the enumeration {Byzantium,
\* Constantinople, Petersburg, Istanbul, Berlin, Paris, Shanghai, Cancun,
\* Atlantis, Agharta}; distinct targets have distinct flags.
C24_FlagOfEnumeration ==
    /\ \A v, w \in Evm : Evm_to_string(v) = Evm_to_string(w) => v = w
    /\ ret.op = "Vyper::compile_ver"
          => \A k \in 1..Len(ret.procs) :
                /\ ret.procs[k].args = <<<<"--evm-version">>, <<Evm_to_string(ret.args[1])>>>>
                /\ Evm_to_string(ret.args[1]) \in EvmFlags


---------------------------------------------------------------------------
(* Totality of parse_blueprint, checked under SpecBlueprint *)

\* C25: for every byte sequence parse_blueprint returns a Blueprint or an
\* error value; a non-empty input shorter than two bytes or not beginning with
\* 0xFE 0x71 gives the not-a-blueprint error, and an input truncated inside the
\* header, the length bytes or the declared preamble data gives an error.
C25_Total ==
    Parsed
        => /\ ret.kind \in {"ok", "err"}
           /\ (Len(ret.args) = 1
                 \/ (Len(ret.args) >= 2 /\ SubSeq(ret.args, 1, 2) # <<254, 113>>))
                 => (ret.kind = "err" /\ ret.text = <<"Not a blueprint!">>)


---------------------------------------------------------------------------
(* The error a batch returns, checked under Spec *)

\* the indexes of the units whose task fails in the call in progress
FailingUnits == {i \in 1..Len(tasks) : ClosureRes(tasks[i].c).kind = "err"}
LowestFailing == CHOOSE i \in FailingUnits : \A j \in FailingUnits : i <= j

\* C26: when units of one compile_many / compile_many_ver / gen_abi_many /
\* get_abi_many call fail, the error the batch returns is the error of the
\* failing unit with the lowest index, whatever the order in which the tasks
\* ran and failed.
C26_Step ==
    (pc = "joining" /\ pc' = "idle" /\ ret'.kind = "err")
        => /\ FailingUnits # {}
           /\ ret'.op = call.op
           /\ ret'.err = ClosureRes(tasks[LowestFailing].c).err
           /\ ret'.text = ClosureRes(tasks[LowestFailing].c).text
           /\ call.k = LowestFailing
C26_LowestIndexError == [][C26_Step]_vars

\* both units failed, the second before the first, and the first's error came back
C26_Witness ==
    /\ ret.op \in BatchOps
    /\ ret.kind = "err"
    /\ ret.order = <<2, 1>>
    /\ ret.text = <<"e", "1">>
    /\ comp[vy.path_to_code[2]] = Fail2


---------------------------------------------------------------------------
(* A batch of one unit against the single unit, checked under Spec *)

\* the single unit with the batch's only source path, ABI path and venv
UnitOfBatch ==
    [abi |-> vy.abi[1], venv |-> vy.venv,
     path_to_code |-> vy.path_to_code[1], bytecode |-> None]

\* what the single-unit method that corresponds to batch call op returns for
\* that unit, and the unit afterwards
SingleCall(op) ==
    CASE op = "compile_many" -> CompileUnit(UnitOfBatch, "Vyper::compile")
      [] op = "compile_many_ver"
           -> CompileWith(UnitOfBatch, "Vyper::compile_ver",
                          Some(CHOOSE v \in EvmInputs : TRUE))
      [] op = "get_abi_many"
           -> [ret |-> AbiOf(UnitOfBatch, "Vyper::get_abi").ret, unit |-> UnitOfBatch]

\* C27: for a batch of exactly one unit, compile_many / compile_many_ver /
\* get_abi_many succeed exactly when Vyper::compile / compile_ver / get_abi do
\* for the same source path, venv and compiler output, with bytecode == [b]
\* where the unit has bytecode == b (values == [v] where get_abi returns v),
\* and fail with the same error kind and text.
C27_OneUnitBatch ==
    (ret.op \in {"compile_many", "compile_many_ver", "get_abi_many"}
       /\ Len(vy.path_to_code) = 1)
        => LET s == SingleCall(ret.op)
           IN  /\ ret.kind = s.ret.kind
               /\ ret.err = s.ret.err
               /\ ret.text = s.ret.text
               /\ (ret.kind = "ok" /\ ret.op \in CompileOps)
                     => vy.bytecode = Some(<<s.unit.bytecode[1]>>)
               /\ (ret.kind = "ok" /\ ret.op = "get_abi_many")
                     => ret.value = <<s.ret.value>>

\* a batch of the one unit b.vy compiled for a version; the text before the
\* bytecode was dropped as the unit API drops it
C27_Witness ==
    /\ ret.op = "compile_many_ver"
    /\ ret.kind = "ok"
    /\ Len(vy.path_to_code) = 1
    /\ vy.bytecode = Some(<<(<<"0", "x", "b">>)>>)
    /\ IsSome(vy.venv)


---------------------------------------------------------------------------
(* Binary resolution, checked under Spec *)

\* a single unit with the venv of the batch
UnitWithVenvOf(self) ==
    [abi |-> [stem |-> "a", ext |-> "json"], venv |-> self.venv,
     path_to_code |-> [stem |-> "a", ext |-> "vy"], bytecode |-> None]

\* the tasks of the call in progress all hold path bin, and those that ran
\* started the program at bin
AllTasksRun(bin) ==
    \A i \in 1..Len(tasks) :
        /\ tasks[i].c.bin = bin
        /\ \A k \in 1..Len(tasks[i].procs) : tasks[i].procs[k].bin = bin

\* C28, as stated: for the same root Vyper::get_vyper and Vypers::get_vyper
\* return the same path, the bare compiler name without a root and the
\* compiler inside the root's bin directory otherwise, and all tasks of one
\* batch call invoke that path.
C28_BinDirectory ==
    /\ Vypers_get_vyper(vy) = Vyper_get_vyper(UnitWithVenvOf(vy))
    /\ Vypers_get_vyper(vy) = (IF IsNone(vy.venv) THEN GlobalVyper
                               ELSE Join(vy.venv[1], "bin", "vyper"))
    /\ pc = "joining" => AllTasksRun(Vypers_get_vyper(vy))

\* C28, amended: the directory inside the root is scripts on a Windows build
\* and bin on every other.
C28_BinOrScripts ==
    /\ Vypers_get_vyper(vy) = Vyper_get_vyper(UnitWithVenvOf(vy))
    /\ Vypers_get_vyper(vy) = (IF IsNone(vy.venv) THEN GlobalVyper
                               ELSE IF windows THEN Join(vy.venv[1], "scripts", "vyper")
                               ELSE Join(vy.venv[1], "bin", "vyper"))
    /\ pc = "joining" => AllTasksRun(Vypers_get_vyper(vy))

\* a batch of two units with a venv, on a Windows build, both tasks have run
C28_Witness ==
    /\ pc = "joining"
    /\ windows
    /\ IsSome(vy.venv)
    /\ Len(tasks) = 2
    /\ \A i \in 1..2 : Len(tasks[i].procs) = 1
                       /\ tasks[i].procs[1].bin = <<".", "venv", "scripts", "vyper">>


---------------------------------------------------------------------------
(* The claims about the directory scans, checked under SpecScan and Spec *)

\* what directory i contributes to a finished scan: nothing when it could not
\* be read or its task failed, else the contracts found in it
Contribution(i) ==
    IF ret.procs[i] = "done" /\ IsSome(get_contracts_in_dir(ret.args[i]))
    THEN get_contracts_in_dir(ret.args[i])[1]
    ELSE <<>>

\* C29: scan_workspace never returns an error; a directory that cannot be read
\* and a task that fails contribute no contracts; the found paths come back in
\* the order root, contracts, src, whatever the order in which the three tasks
\* finished.
C29_ScanOrder ==
    ret.op = "scan_workspace"
        => /\ ret.kind = "ok"
           /\ ret.value = Contribution(1) \o Contribution(2) \o Contribution(3)
           /\ \A k \in 1..Len(ret.value) : \A j \in 1..k :
                 ret.value[j].dir = "root" \/ ret.value[k].dir = "src"
                    \/ ret.value[j].dir = ret.value[k].dir

\* src was scanned first and root last, contracts could not be read, and the
\* entry of root comes before the entry of src
C29_Witness ==
    /\ ret.op = "scan_workspace"
    /\ ret.order = <<3, 2, 1>>
    /\ IsNone(ret.args[2])
    /\ Len(ret.value) = 2
    /\ ret.value[1].dir = "root"
    /\ ret.value[2].dir = "src"


\* a file name with the extension vy, such as multisig.vy
HasVyExtension(p) == p.ext = "vy"

\* C30: get_contracts_in_dir(dir) returns exactly the entries of dir whose file
\* name has the extension vy, in the listing's order, so that Vypers::in_dir(dir)
\* builds a batch of every Vyper contract of the directory.  ret.args is the
\* listing in_dir was given.
C30_AllContractsOfDir ==
    (ret.op = "in_dir" /\ IsSome(ret.args))
        => /\ ret.kind = "ok"
           /\ vy.path_to_code = SelectSeq(ret.args[1], HasVyExtension)

====
